---- MODULE Spec2Model ----
(***************************************************************************)
(* A model of justcache: the bounded-memory LRU storage engine             *)
(* (storage/storage.go, storage/list.go), the promise map and the          *)
(* admission / upload handlers of the cache server (internal/remote).      *)
(*                                                                         *)
(* Keys and values are strings; byte lengths are Len(string).  Time is a   *)
(* discrete clock `now`; a duration is a number of clock units.            *)
(***************************************************************************)
EXTENDS Integers, Sequences, FiniteSets, TLC

VARIABLES
    store,            \* InMemoryStorage.store : key -> CachedObject (with its list pointers)
    lru,              \* InMemoryStorage.lru   : [head, tail]
    memoryUsedBytes,  \* InMemoryStorage.memoryUsedBytes
    now,              \* the wall clock read by time.Now()
    last,             \* the storage call that has just completed, until its caller takes the result
    useOrder,         \* keys of the stored entries, oldest use first (put / successful get)
    promises,         \* PromiseMap.promises : key -> Promise
    pmLast,           \* the promise-map call that has just completed, until its caller takes the result
    procs,            \* the goroutines: where each is in the call or handler it runs, and its locals
    granted,          \* per key: the promise an Accepted intend holds until an upload releases it
    requests,         \* the number of requests the server has taken up
    reaper,           \* PromiseMap's cleanup goroutine, its ticker, stopChan and stopOnce
    router,           \* RendezvousRouter: its nodes, the hasher's scores, the last GetNodes call
    retry,            \* one run of a retry driver (retry.Do, retry.DoWithHint) with its context and timer
    okUploads,        \* per key: the uploads answered 200 since the last Accepted intend for the key
    list              \* an lruList on its own with the CachedObjects handed to it (list_test.go)

vars == <<store, lru, memoryUsedBytes, now, last, useOrder, promises, pmLast,
          procs, granted, requests, reaper, router, retry, okUploads, list>>

storageVars == <<store, lru, memoryUsedBytes>>

-----------------------------------------------------------------------------
(* Bounds of the model.                                                     *)

\* InMemoryStorage.maxMemory of the modelled instance, in bytes.
MaxMemory == 7

\* The clock runs from 0 to MaxTime.
MaxTime == 2

\* The longest ttl (in clock units) a put is given.
MaxTTL == 1

\* The server is followed over this many requests.
MaxRequests == 3

\* Stop is called at most this many times.
MaxStops == 3

\* Config.MaxAttempts of a retry driver ranges over 0..MaxAttempts.
MaxAttempts == 2

\* A driver is followed for at most this many calls of its function (a
\* driver with MaxAttempts = 0 has no limit of its own).
MaxCalls == 3

\* The router holds at most this many nodes.
MaxNodes == 3

\* SetNodes is called at most this many times while GetNodes calls run.
MaxSwaps == 2

\* The scores of the hasher are 0..MaxScore.
MaxScore == 2

\* GetNodes is asked for at most this many nodes.
MaxK == 4

-----------------------------------------------------------------------------
(* Program constants.                                                       *)

MaxKeySizeBytes == 1024
MaxValueSizeBytes == 67108864

\* One unit of the clock stands for 15 seconds: defaultPromiseTTL (30 s) is
\* two units and promiseCleanupInterval (15 s) is one.
defaultPromiseTTL == 2
promiseCleanupInterval == 1

\* The milliseconds of one clock unit.
UnitMs == 15000

\* defaultTTL of an uploaded value: 30 minutes, in clock units.
defaultTTL == 120

Nil == "<nil>"
NoValue == "<none>"

OK == "nil"
ErrKeyNotFound == "key not found"
ErrDeleteKeyNotFound == "delete key not found"
ErrMemoryLimitExceeded == "memory limit exceeded"
ErrKeyTooLong == "key is too long"
ErrKeyTooShort == "key is too short"
ErrObjectTooLarge == "value exceeds maximum size"
ErrValueTooShort == "value is too short"
ErrInvalidTTL == "TTL must be greater than zero"

-----------------------------------------------------------------------------
(* Inputs.                                                                  *)

RECURSIVE Rep(_, _)
Rep(c, n) ==
    IF n = 0 THEN ""
    ELSE IF n % 2 = 0 THEN LET h == Rep(c, n \div 2) IN h \o h
    ELSE c \o Rep(c, n - 1)

\* A key one byte longer than validateKey admits.
LongKey == Rep("k", MaxKeySizeBytes + 1)

ValidKeys == {"a", "b", "c"}
Keys == ValidKeys \cup {"", LongKey}

\* Values of 0, 1 and 2 bytes, one that fills the store exactly with a
\* one-byte key, and one that is one byte too large.
Values == {"", "x", "zz", Rep("f", MaxMemory - 1), Rep("g", MaxMemory)}

TTLs == 0 .. MaxTTL

-----------------------------------------------------------------------------
(* storage/list.go                                                          *)

\* CachedObject.GetBytesUsed
GetBytesUsed(c) == Len(c.Key) + Len(c.Value)

\* A list is [head, tail, nodes]: nodes maps a node (named by its key) to the
\* CachedObject, whose prev / next fields are the links.

\* lruList.append
ListAppend(l, node) ==
    LET n1 == [l.nodes EXCEPT ![node].prev = l.tail, ![node].next = Nil]
    IN  IF l.tail # Nil
        THEN [head |-> l.head, tail |-> node,
              nodes |-> [n1 EXCEPT ![l.tail].next = node]]
        ELSE [head |-> node, tail |-> node, nodes |-> n1]

\* remove, were it to leave the removed node's own pointers as they are.
ListRemove_KeepsPointers(l, node) ==
    LET nd == l.nodes[node]
    IN  IF node = l.head /\ node = l.tail
        THEN [head |-> Nil, tail |-> Nil, nodes |-> l.nodes]
        ELSE IF node = l.head
        THEN [head |-> nd.next, tail |-> l.tail,
              nodes |-> [l.nodes EXCEPT ![nd.next].prev = Nil]]
        ELSE IF node = l.tail
        THEN [head |-> l.head, tail |-> nd.prev,
              nodes |-> [l.nodes EXCEPT ![nd.prev].next = Nil]]
        ELSE [head |-> l.head, tail |-> l.tail,
              nodes |-> [l.nodes EXCEPT ![nd.prev].next = nd.next,
                                        ![nd.next].prev = nd.prev]]

\* lruList.remove
ListRemove(l, node) ==
    LET nd == l.nodes[node]
        unlinked ==
            IF node = l.head /\ node = l.tail
            THEN [head |-> Nil, tail |-> Nil, nodes |-> l.nodes]
            ELSE IF node = l.head
            THEN [head |-> nd.next, tail |-> l.tail,
                  nodes |-> IF nd.next # Nil
                            THEN [l.nodes EXCEPT ![nd.next].prev = Nil]
                            ELSE l.nodes]
            ELSE IF node = l.tail
            THEN [head |-> l.head, tail |-> nd.prev,
                  nodes |-> IF nd.prev # Nil
                            THEN [l.nodes EXCEPT ![nd.prev].next = Nil]
                            ELSE l.nodes]
            ELSE [head |-> l.head, tail |-> l.tail,
                  nodes |-> [l.nodes EXCEPT ![nd.prev].next = nd.next,
                                            ![nd.next].prev = nd.prev]]
    IN  [unlinked EXCEPT !.nodes[node].prev = Nil, !.nodes[node].next = Nil]

\* moveToTail, were it to leave the node where it is.
ListMoveToTail_Stays(l, node) == l

\* lruList.moveToTail
ListMoveToTail(l, node) ==
    IF node = l.tail THEN l ELSE ListAppend(ListRemove(l, node), node)

\* lruList.front
ListFront(l) == l.head

\* The keys met walking next-pointers from node n, at most fuel steps.
RECURSIVE WalkNext(_, _, _)
WalkNext(nodes, n, fuel) ==
    IF n = Nil \/ fuel = 0 \/ n \notin DOMAIN nodes THEN <<>>
    ELSE <<n>> \o WalkNext(nodes, nodes[n].next, fuel - 1)

\* The keys met walking prev-pointers from node n, at most fuel steps.
RECURSIVE WalkPrev(_, _, _)
WalkPrev(nodes, n, fuel) ==
    IF n = Nil \/ fuel = 0 \/ n \notin DOMAIN nodes THEN <<>>
    ELSE <<n>> \o WalkPrev(nodes, nodes[n].prev, fuel - 1)

\* The CachedObjects a list on its own is given.
ListNodeKeys == {"a", "b", "c", "d"}

\* newTestObject(key, "val") of list_test.go: an object that is in no list
\* (the hour of its ExpirationTime is 240 clock units).
newTestObject(key) ==
    [Key |-> key, Value |-> "val", ExpirationTime |-> 240, prev |-> Nil, next |-> Nil]

\* l := &lruList{} with the objects made for it.  order is the keys of the
\* objects appended and not removed since, in the order the calls made;
\* removed the objects taken out; op, key and was the last call, its node and
\* the order before it.
NewList ==
    [head |-> Nil, tail |-> Nil,
     nodes |-> [k \in ListNodeKeys |-> newTestObject(k)],
     order |-> <<>>, removed |-> {}, op |-> "none", key |-> Nil, was |-> <<>>]

-----------------------------------------------------------------------------
(* storage/storage.go.  A storage state is [store, lru, mem].               *)

ListOf(st) == [head |-> st.lru.head, tail |-> st.lru.tail, nodes |-> st.store]

WithList(st, l) ==
    [st EXCEPT !.store = l.nodes, !.lru = [head |-> l.head, tail |-> l.tail]]

\* The LRU order of a storage state, head first.
LruKeys(st) == WalkNext(st.store, st.lru.head, Cardinality(DOMAIN st.store) + 1)

\* validateKey
validateKey(key) ==
    IF Len(key) = 0 THEN ErrKeyTooShort
    ELSE IF Len(key) > MaxKeySizeBytes THEN ErrKeyTooLong
    ELSE OK

\* time.Time.Before: an entry is expired once its expiration lies before now.
Expired(c, t) == c.ExpirationTime < t

\* deleteUnlocked, were it to leave memoryUsedBytes as it is.
deleteUnlocked_NoAccounting(st, key) ==
    IF key \notin DOMAIN st.store
    THEN [st |-> st, err |-> ErrDeleteKeyNotFound]
    ELSE LET node == st.store[key]
             l    == ListRemove(ListOf(st), key)
             kept == [k \in DOMAIN l.nodes \ {node.Key} |-> l.nodes[k]]
         IN  [st  |-> [store |-> kept,
                       lru   |-> [head |-> l.head, tail |-> l.tail],
                       mem   |-> st.mem],
              err |-> OK]

\* InMemoryStorage.deleteUnlocked
deleteUnlocked(st, key) ==
    IF key \notin DOMAIN st.store
    THEN [st |-> st, err |-> ErrDeleteKeyNotFound]
    ELSE LET node == st.store[key]
             l    == ListRemove(ListOf(st), key)
             kept == [k \in DOMAIN l.nodes \ {node.Key} |-> l.nodes[k]]
         IN  [st  |-> [store |-> kept,
                       lru   |-> [head |-> l.head, tail |-> l.tail],
                       mem   |-> st.mem - GetBytesUsed(node)],
              err |-> OK]

\* The loop of limitedTtlCleanup from node ptr on.
RECURSIVE ttlCleanupFrom(_, _, _, _, _, _)
ttlCleanupFrom(st, ptr, freedBytes, minimumReclaimBytes, t, deleted) ==
    IF ptr = Nil
    THEN [st |-> st, freedBytes |-> freedBytes, deleted |-> deleted]
    ELSE LET node == st.store[ptr]
             next == node.next
         IN  IF Expired(node, t)
             THEN LET freed2 == freedBytes + GetBytesUsed(node)
                      st2    == deleteUnlocked(st, node.Key).st
                      del2   == Append(deleted, ptr)
                  IN  IF freed2 >= minimumReclaimBytes
                      THEN [st |-> st2, freedBytes |-> freed2, deleted |-> del2]
                      ELSE ttlCleanupFrom(st2, next, freed2, minimumReclaimBytes, t, del2)
             ELSE ttlCleanupFrom(st, next, freedBytes, minimumReclaimBytes, t, deleted)

\* limitedTtlCleanup, were it to delete nothing.
limitedTtlCleanup_Skips(st, minimumReclaimBytes, t) ==
    [st |-> st, freedBytes |-> 0, deleted |-> <<>>]

\* limitedTtlCleanup, were it to go on to the end of the list whatever it has
\* freed.
limitedTtlCleanup_Sweeps(st, minimumReclaimBytes, t) ==
    ttlCleanupFrom(st, ListFront(ListOf(st)), 0, st.mem + 1, t, <<>>)

\* InMemoryStorage.limitedTtlCleanup
limitedTtlCleanup(st, minimumReclaimBytes, t) ==
    ttlCleanupFrom(st, ListFront(ListOf(st)), 0, minimumReclaimBytes, t, <<>>)

\* The loop of limitedEviction from node ptr on.
RECURSIVE evictionFrom(_, _, _, _, _)
evictionFrom(st, ptr, freedBytes, minimumReclaimBytes, deleted) ==
    IF ptr = Nil
    THEN [st |-> st, freedBytes |-> freedBytes, deleted |-> deleted]
    ELSE LET node   == st.store[ptr]
             next   == node.next
             freed2 == freedBytes + GetBytesUsed(node)
             st2    == deleteUnlocked(st, node.Key).st
             del2   == Append(deleted, ptr)
         IN  IF freed2 >= minimumReclaimBytes
             THEN [st |-> st2, freedBytes |-> freed2, deleted |-> del2]
             ELSE evictionFrom(st2, next, freed2, minimumReclaimBytes, del2)

\* InMemoryStorage.limitedEviction
limitedEviction(st, minimumReclaimBytes) ==
    evictionFrom(st, ListFront(ListOf(st)), 0, minimumReclaimBytes, <<>>)

\* InMemoryStorage.Get, were it to report an expired entry as missing without deleting it.
Get_KeepsExpired(st, key, t) ==
    IF validateKey(key) # OK
    THEN [st |-> st, err |-> validateKey(key), value |-> NoValue]
    ELSE IF key \notin DOMAIN st.store
    THEN [st |-> st, err |-> ErrKeyNotFound, value |-> NoValue]
    ELSE LET node == st.store[key]
         IN  IF Expired(node, t)
             THEN [st |-> st, err |-> ErrKeyNotFound, value |-> NoValue]
             ELSE [st |-> WithList(st, ListMoveToTail(ListOf(st), key)),
                   err |-> OK, value |-> node.Value]

\* InMemoryStorage.Get
Get(st, key, t) ==
    IF validateKey(key) # OK
    THEN [st |-> st, err |-> validateKey(key), value |-> NoValue]
    ELSE IF key \notin DOMAIN st.store
    THEN [st |-> st, err |-> ErrKeyNotFound, value |-> NoValue]
    ELSE LET node == st.store[key]
         IN  IF Expired(node, t)
             THEN [st |-> deleteUnlocked(st, key).st, err |-> ErrKeyNotFound,
                   value |-> NoValue]
             ELSE [st |-> WithList(st, ListMoveToTail(ListOf(st), key)),
                   err |-> OK, value |-> node.Value]

\* A put that was refused before it touched the store.
PutRefused(st, e) ==
    [st |-> st, err |-> e, additional |-> 0, cleanup |-> FALSE,
     ttlDeleted |-> <<>>, evicted |-> <<>>, ttlFreed |-> 0, replaced |-> FALSE]

\* Put, line 107: the store cannot take the additional bytes as it is.
needsCleanup(st, additionalMemoryNeeded) ==
    st.mem + additionalMemoryNeeded > MaxMemory

\* The final memory check, were it to let every object through.
overLimit_Never(st, newObjectSize) == FALSE

\* Put, line 134: the final memory check.
overLimit(st, newObjectSize) ==
    st.mem + newObjectSize > MaxMemory

\* The part of Put that runs under the mutex once the object is known to fit
\* maxMemory: lines 95-150.  Its steps, last first:
\*   info      what the call returns and did on its way;
\*   insert    the final memory check and the insertion (lines 134-150);
\*   deleteOld the deletion of the old object of the key (lines 127-130);
\*   finish    the check of the freed bytes and the second look at the key
\*             (lines 115-124);
\*   evict     limitedEviction for what the ttl cleanup left to free
\*             (lines 110-113);
\*   c0        no cleanup was needed.
PutLocked(st, key, value, ttl, t) ==
    LET newObjectSize      == Len(key) + Len(value)
        existingObjectSize == IF key \in DOMAIN st.store
                              THEN GetBytesUsed(st.store[key]) ELSE 0
        additionalMemoryNeeded ==
            IF newObjectSize > existingObjectSize
            THEN newObjectSize - existingObjectSize ELSE 0
        cleanup == needsCleanup(st, additionalMemoryNeeded)
        info(c, s, e, repl) ==
            [st |-> s, err |-> e, additional |-> additionalMemoryNeeded,
             cleanup |-> cleanup, ttlDeleted |-> c.ttlDeleted,
             evicted |-> c.evicted, ttlFreed |-> c.ttlFreed, replaced |-> repl]
        appended(c, st3, repl) ==
            info(c, WithList(st3, ListAppend(ListOf(st3), key)), OK, repl)
        insert(c, st2, repl) ==
            IF overLimit(st2, newObjectSize)
            THEN info(c, st2, ErrMemoryLimitExceeded, repl)
            ELSE LET cachedObject == [Key |-> key, Value |-> value,
                                      ExpirationTime |-> t + ttl,
                                      prev |-> Nil, next |-> Nil]
                     st3 == [store |-> [k \in DOMAIN st2.store \cup {key} |->
                                          IF k = key THEN cachedObject
                                          ELSE st2.store[k]],
                             lru   |-> st2.lru,
                             mem   |-> st2.mem + GetBytesUsed(cachedObject)]
                 IN  appended(c, st3, repl)
        deleteOld(c, existing2) ==
            LET st2 == IF existing2 > 0 THEN deleteUnlocked(c.st, key).st
                       ELSE c.st
            IN  insert(c, st2, existing2 > 0)
        finish(c) ==
            IF cleanup /\ c.freedBytes < additionalMemoryNeeded
            THEN info(c, c.st, ErrMemoryLimitExceeded, FALSE)
            ELSE LET existing2 == IF cleanup
                                  THEN (IF key \in DOMAIN c.st.store
                                        THEN GetBytesUsed(c.st.store[key]) ELSE 0)
                                  ELSE existingObjectSize
                 IN  deleteOld(c, existing2)
        ran(ttlRun, evRun) ==
            [st |-> evRun.st,
             freedBytes |-> ttlRun.freedBytes + evRun.freedBytes,
             ttlDeleted |-> ttlRun.deleted, evicted |-> evRun.deleted,
             ttlFreed |-> ttlRun.freedBytes]
        evict(ttlRun) ==
            LET evRun == IF ttlRun.freedBytes < additionalMemoryNeeded
                         THEN limitedEviction(ttlRun.st,
                                  additionalMemoryNeeded - ttlRun.freedBytes)
                         ELSE [st |-> ttlRun.st, freedBytes |-> 0,
                               deleted |-> <<>>]
            IN  ran(ttlRun, evRun)
        c0 == [st |-> st, freedBytes |-> 0, ttlDeleted |-> <<>>,
               evicted |-> <<>>, ttlFreed |-> 0]
        ttlRun0 == limitedTtlCleanup(st, additionalMemoryNeeded, t)
        done == IF cleanup THEN evict(ttlRun0) ELSE c0
    IN  finish(done)

\* InMemoryStorage.Put
Put(st, key, value, ttl, t) ==
    IF validateKey(key) # OK THEN PutRefused(st, validateKey(key))
    ELSE IF ttl <= 0 THEN PutRefused(st, ErrInvalidTTL)
    ELSE IF Len(value) = 0 THEN PutRefused(st, ErrValueTooShort)
    ELSE IF Len(key) + Len(value) > MaxMemory THEN PutRefused(st, ErrObjectTooLarge)
    ELSE PutLocked(st, key, value, ttl, t)

\* InMemoryStorage.Delete
Delete(st, key) ==
    IF validateKey(key) # OK
    THEN [st |-> st, err |-> validateKey(key)]
    ELSE deleteUnlocked(st, key)

\* NewInMemoryStorage
NewInMemoryStorage ==
    [store |-> <<>>, lru |-> [head |-> Nil, tail |-> Nil], mem |-> 0]

-----------------------------------------------------------------------------
(* The storage instance as the state of the model.                          *)

St == [store |-> store, lru |-> lru, mem |-> memoryUsedBytes]

SetStorage(st) ==
    /\ store' = st.store
    /\ lru' = st.lru
    /\ memoryUsedBytes' = st.mem

\* s without the elements of the set gone, order kept.
RECURSIVE Without(_, _)
Without(s, gone) ==
    IF s = <<>> THEN <<>>
    ELSE IF Head(s) \in gone THEN Without(Tail(s), gone)
    ELSE <<Head(s)>> \o Without(Tail(s), gone)

Range(s) == {s[i] : i \in DOMAIN s}

\* The use order after an operation that left the entries of st2 and, when
\* used # Nil, put or successfully got the key `used`.
NextUseOrder(st2, used) ==
    LET gone == (Range(useOrder) \ DOMAIN st2.store) \cup {used}
        kept == Without(useOrder, gone)
    IN  IF used # Nil THEN Append(kept, used) ELSE kept

\* last.expired: the call found an entry for its key that had expired.
\* last.info: what the put did on its way (see PutLocked).
NoInfo == [additional |-> 0, cleanup |-> FALSE, ttlDeleted |-> <<>>,
           evicted |-> <<>>, ttlFreed |-> 0, replaced |-> FALSE]

NoOp == [op |-> "none", key |-> Nil, value |-> NoValue, ttl |-> 0,
         err |-> OK, ret |-> NoValue, expired |-> FALSE, info |-> NoInfo]

serverUnchanged ==
    UNCHANGED <<promises, pmLast, procs, granted, requests, reaper, router, retry, okUploads, list>>

\* No storage call is waiting to hand its result to its caller.
Idle == last.op = "none"

\* A goroutine calls Get(key).
StorageGet(key) ==
    /\ Idle
    /\ \E r \in {Get(St, key, now)} :
        /\ SetStorage(r.st)
        /\ last' = [NoOp EXCEPT !.op = "get", !.key = key, !.err = r.err,
                                !.ret = r.value,
                                !.expired = (key \in DOMAIN store
                                             /\ Expired(store[key], now))]
        /\ useOrder' = NextUseOrder(r.st, IF r.err = OK THEN key ELSE Nil)
        /\ UNCHANGED now
        /\ serverUnchanged

\* A goroutine calls Put(key, value, ttl).
StoragePut(key, value, ttl) ==
    /\ Idle
    /\ \E r \in {Put(St, key, value, ttl, now)} :
        /\ SetStorage(r.st)
        /\ last' = [NoOp EXCEPT !.op = "put", !.key = key, !.value = value,
                                !.ttl = ttl, !.err = r.err,
                                !.info = [f \in DOMAIN NoInfo |-> r[f]]]
        /\ useOrder' = NextUseOrder(r.st, IF r.err = OK THEN key ELSE Nil)
        /\ UNCHANGED now
        /\ serverUnchanged

\* A goroutine calls Delete(key).
StorageDelete(key) ==
    LET r == Delete(St, key)
    IN  /\ Idle
        /\ SetStorage(r.st)
        /\ last' = [NoOp EXCEPT !.op = "delete", !.key = key, !.err = r.err]
        /\ useOrder' = NextUseOrder(r.st, Nil)
        /\ UNCHANGED now
        /\ serverUnchanged

\* The caller of the completed storage call takes its result.
StorageReturn ==
    /\ ~Idle
    /\ last' = NoOp
    /\ UNCHANGED <<store, lru, memoryUsedBytes, useOrder, now>>
    /\ serverUnchanged

\* Time passes.
Tick ==
    /\ Idle
    /\ now < MaxTime
    /\ now' = now + 1
    /\ UNCHANGED <<store, lru, memoryUsedBytes, useOrder, last>>
    /\ serverUnchanged

StorageInit ==
    /\ store = NewInMemoryStorage.store
    /\ lru = NewInMemoryStorage.lru
    /\ memoryUsedBytes = NewInMemoryStorage.mem
    /\ now = 0
    /\ last = NoOp
    /\ useOrder = <<>>
    /\ promises = <<>>
    /\ pmLast = <<>>
    /\ procs = <<>>
    /\ granted = <<>>
    /\ requests = 0
    /\ reaper = <<>>
    /\ router = <<>>
    /\ retry = <<>>
    /\ okUploads = <<>>
    /\ list = NewList

StorageNext ==
    \/ \E key \in Keys : StorageGet(key)
    \/ \E key \in Keys, value \in Values, ttl \in TTLs : StoragePut(key, value, ttl)
    \/ \E key \in Keys : StorageDelete(key)
    \/ StorageReturn
    \/ Tick

\* The storage engine under any sequence of get / put / delete calls.  The
\* mutex is held for the whole of each call, so each call is one step.
SpecStorage == StorageInit /\ [][StorageNext]_vars

-----------------------------------------------------------------------------
(* Properties of the storage engine.                                        *)

\* The bytes of the entries of s named in ks.
RECURSIVE SumBytes(_, _)
SumBytes(s, ks) ==
    IF ks = {} THEN 0
    ELSE LET k == CHOOSE x \in ks : TRUE
         IN  GetBytesUsed(s[k]) + SumBytes(s, ks \ {k})

\* The bytes of the entries of s named in the sequence q.
SeqBytes(s, q) == SumBytes(s, Range(q))

\* The place of key k in the sequence q (0 when absent).
Pos(q, k) == IF k \in Range(q) THEN CHOOSE i \in DOMAIN q : q[i] = k ELSE 0

\* The step is a call of op: it starts with no call pending and ends with the
\* call's result in last.
IsCall(op) == Idle /\ last'.op = op

\* The arguments of the put make it past validation and the size check.
AdmissiblePut(key, value, ttl) ==
    /\ validateKey(key) = OK
    /\ Len(value) > 0
    /\ ttl > 0
    /\ Len(key) + Len(value) <= MaxMemory

\* The net bytes a put of (key, value) needs on top of what key holds in s.
Needed(s, key, value) ==
    LET new == Len(key) + Len(value)
        old == IF key \in DOMAIN s THEN GetBytesUsed(s[key]) ELSE 0
    IN  IF new > old THEN new - old ELSE 0

\* The keys of the entries of s that have expired at time t.
ExpiredKeys(s, t) == {k \in DOMAIN s : Expired(s[k], t)}

\* C1.  In every state, memoryUsedBytes is the sum of len(key) + len(value)
\* over the entries in the store: after any sequence of get, put and delete,
\* including puts that evict, replace or fail.
C1_MemoryAccounting == memoryUsedBytes = SumBytes(store, DOMAIN store)

\* A put that evicted entries and then failed, with entries left in the store.
C1_Witness ==
    /\ last.op = "put"
    /\ last.err = ErrMemoryLimitExceeded
    /\ last.info.evicted # <<>>
    /\ memoryUsedBytes > 0

\* C2.  In every state, memoryUsedBytes is at most maxMemory.
C2_MemoryWithinCap == memoryUsedBytes <= MaxMemory

\* A put that had to evict and left the store exactly full.
C2_Witness ==
    /\ last.op = "put"
    /\ last.err = OK
    /\ last.info.evicted # <<>>
    /\ memoryUsedBytes = MaxMemory

\* C4.  A put that replaces an existing key with a larger value, has to
\* evict, and finds its own key at the LRU head returns OK, and get(key)
\* then returns the new value.
C4_ReplaceAtHeadSucceeds ==
    [][(/\ IsCall("put")
        /\ last'.key \in DOMAIN store
        /\ lru.head = last'.key
        /\ AdmissiblePut(last'.key, last'.value, last'.ttl)
        /\ Len(last'.key) + Len(last'.value) > GetBytesUsed(store[last'.key])
        /\ last'.info.evicted # <<>>)
       => (/\ last'.err = OK
           /\ Get(St', last'.key, now').err = OK
           /\ Get(St', last'.key, now').value = last'.value)]_vars

\* C6.  A put with a valid key, a non-empty value, ttl > 0 and
\* len(key) + len(value) = maxMemory returns OK and leaves the store exactly
\* full, whatever the store held before.
C6_FillsExactly ==
    [][(/\ IsCall("put")
        /\ AdmissiblePut(last'.key, last'.value, last'.ttl)
        /\ Len(last'.key) + Len(last'.value) = MaxMemory)
       => (last'.err = OK /\ memoryUsedBytes' = MaxMemory)]_vars

\* C7.  A put that evicts by LRU evicts no more than necessary: free space
\* counts, so the last entry it evicted was still needed, that is, before
\* that eviction the store could not take the new object (less the bytes of
\* the entry it replaces, while that entry is still there).
C7_EvictsOnlyAsNeeded ==
    [][(IsCall("put") /\ last'.info.evicted # <<>>)
       => LET key     == last'.key
              ev      == last'.info.evicted
              earlier == SubSeq(ev, 1, Len(ev) - 1)
              removed == Range(last'.info.ttlDeleted) \cup Range(earlier)
              memThen == memoryUsedBytes - SumBytes(store, removed)
              old     == IF key \in DOMAIN store /\ key \notin removed
                         THEN GetBytesUsed(store[key]) ELSE 0
              new     == Len(key) + Len(last'.value)
          IN  memThen + (IF new > old THEN new - old ELSE 0) > MaxMemory]_vars

\* C8.  When a put evicts live entries, every evicted entry was last put or
\* successfully got before every entry that survives the put.
C8_EvictsLeastRecentlyUsed ==
    [][(IsCall("put") /\ last'.info.evicted # <<>>)
       => /\ \A e \in Range(last'.info.evicted) :
                \A k \in DOMAIN store' \ {last'.key} :
                    /\ e \in Range(useOrder)
                    /\ k \in Range(useOrder)
                    /\ Pos(useOrder, e) < Pos(useOrder, k)
          /\ last'.key \in DOMAIN store'
                => useOrder'[Len(useOrder')] = last'.key]_vars

\* A put evicted an entry that was older than a surviving entry, after a get
\* had changed which entry is the oldest.
C8_Witness ==
    /\ last.op = "put"
    /\ last.err = OK
    /\ last.info.evicted # <<>>
    /\ last.info.ttlDeleted = <<>>
    /\ Cardinality(DOMAIN store) >= 2
    /\ \E e \in Range(last.info.evicted), k \in DOMAIN store : e = "b" /\ k = "a"

\* C9.  During a put, a live entry other than the key being written is
\* removed only if the expired entries do not add up to the needed bytes.
C9_LiveEvictedOnlyIfExpiredShort ==
    [][IsCall("put")
       => LET key  == last'.key
              gone == {k \in DOMAIN store \ {key} :
                          ~Expired(store[k], now) /\ k \notin DOMAIN store'}
          IN  gone # {}
                => SumBytes(store, ExpiredKeys(store, now))
                      < Needed(store, key, last'.value)]_vars

\* A put for which deleting an expired entry was enough: a live entry
\* nearer the LRU head than the expired one is still there.
C9_Witness ==
    /\ last.op = "put"
    /\ last.err = OK
    /\ last.info.ttlDeleted # <<>>
    /\ last.info.evicted = <<>>
    /\ Cardinality(DOMAIN store) >= 2
    /\ \E k \in DOMAIN store \ {last.key} : store[k].ExpirationTime >= now

\* C10.  A get of a key whose entry has expired returns ErrKeyNotFound and in
\* the same step removes the entry from the map and from the LRU list and
\* subtracts its bytes from memoryUsedBytes; the other entries stay.
C10_GetExpiredDeletes ==
    [][(/\ IsCall("get")
        /\ last'.key \in DOMAIN store
        /\ Expired(store[last'.key], now))
       => (/\ last'.err = ErrKeyNotFound
           /\ last'.ret = NoValue
           /\ DOMAIN store' = DOMAIN store \ {last'.key}
           /\ LruKeys(St') = Without(LruKeys(St), {last'.key})
           /\ memoryUsedBytes'
                = memoryUsedBytes - GetBytesUsed(store[last'.key]))]_vars

\* A get found an expired entry and the store no longer holds it.
C10_Witness ==
    /\ last.op = "get"
    /\ last.expired
    /\ last.err = ErrKeyNotFound
    /\ last.key \notin DOMAIN store
    /\ store # <<>>

\* C11.  A put on a key the store holds unexpired (an earlier put of the key
\* succeeded), when it succeeds, leaves one entry for the key: the key is
\* once in the LRU list, get(key) returns the new value, and memoryUsedBytes
\* is the bytes of the other entries plus len(key) + len(new value), whether
\* the new value is larger or smaller than the old one.
C11_PutReplaces ==
    [][(/\ IsCall("put")
        /\ last'.key \in DOMAIN store
        /\ ~Expired(store[last'.key], now)
        /\ last'.err = OK)
       => LET key == last'.key
          IN  /\ key \in DOMAIN store'
              /\ Cardinality({i \in DOMAIN LruKeys(St') : LruKeys(St')[i] = key}) = 1
              /\ Get(St', key, now').err = OK
              /\ Get(St', key, now').value = last'.value
              /\ memoryUsedBytes'
                    = SumBytes(store', DOMAIN store' \ {key})
                        + Len(key) + Len(last'.value)]_vars

\* A put replaced the value of its key by a larger one while the store held
\* another entry.
C11_Witness ==
    /\ last.op = "put"
    /\ last.err = OK
    /\ last.info.replaced
    /\ last.info.additional > 0
    /\ Cardinality(DOMAIN store) >= 2
    /\ store[last.key].Value = last.value

-----------------------------------------------------------------------------
(* The promise map (package remote).  A map state is a function              *)
(* key -> Promise.                                                           *)

NoPromise == [Key |-> Nil, Size |-> 0, CreatedAt |-> 0, ExpiresAt |-> 0]

\* Live, as Create reads it: ExpiresAt.After(now).
PromiseLive(pm, key, t) == key \in DOMAIN pm /\ pm[key].ExpiresAt > t

\* pm without key.
PromiseDrop(pm, key) == [k \in DOMAIN pm \ {key} |-> pm[k]]

\* Create, were it to grant every call.
promiseCreate_Overwrites(pm, key, size, ttl, t) ==
    LET ttl2 == IF ttl <= 0 THEN defaultPromiseTTL ELSE ttl
        made == [Key |-> key, Size |-> size, CreatedAt |-> t, ExpiresAt |-> t + ttl2]
    IN  [pm |-> [k \in DOMAIN pm \cup {key} |->
                    IF k = key THEN made ELSE pm[k]],
         ok |-> TRUE]

\* Create, were it to refuse whenever the map holds a promise for the key,
\* expired or not.
promiseCreate_KeepsExpired(pm, key, size, ttl, t) ==
    LET ttl2 == IF ttl <= 0 THEN defaultPromiseTTL ELSE ttl
        made == [Key |-> key, Size |-> size, CreatedAt |-> t, ExpiresAt |-> t + ttl2]
    IN  IF key \in DOMAIN pm
        THEN [pm |-> pm, ok |-> FALSE]
        ELSE [pm |-> [k \in DOMAIN pm \cup {key} |->
                         IF k = key THEN made ELSE pm[k]],
              ok |-> TRUE]

\* PromiseMap.Create
promiseCreate(pm, key, size, ttl, t) ==
    LET ttl2 == IF ttl <= 0 THEN defaultPromiseTTL ELSE ttl
        made == [Key |-> key, Size |-> size, CreatedAt |-> t, ExpiresAt |-> t + ttl2]
    IN  IF key \in DOMAIN pm /\ pm[key].ExpiresAt > t
        THEN [pm |-> pm, ok |-> FALSE]
        ELSE [pm |-> [k \in DOMAIN pm \cup {key} |->
                         IF k = key THEN made ELSE pm[k]],
              ok |-> TRUE]

\* PromiseMap.Get, the part under the read lock (lines 78-91): "nil" when the
\* key has no promise, "promise" when it has a valid one, "expired" when the
\* caller has to go on to the write lock.
promiseGetRead(pm, key, t) ==
    IF key \notin DOMAIN pm THEN [res |-> "nil", promise |-> NoPromise]
    ELSE IF pm[key].ExpiresAt > t THEN [res |-> "promise", promise |-> pm[key]]
    ELSE [res |-> "expired", promise |-> NoPromise]

\* The write-lock part of Get, were it to delete the entry it finds without
\* looking at its expiry again.
promiseGetWrite_NoRecheck(pm, key, t) ==
    IF key \notin DOMAIN pm
    THEN [pm |-> pm, res |-> "nil", promise |-> NoPromise]
    ELSE [pm |-> PromiseDrop(pm, key), res |-> "nil", promise |-> NoPromise]

\* PromiseMap.Get, the part under the write lock (lines 94-109).
promiseGetWrite(pm, key, t) ==
    IF key \notin DOMAIN pm
    THEN [pm |-> pm, res |-> "nil", promise |-> NoPromise]
    ELSE IF pm[key].ExpiresAt < t
    THEN [pm |-> PromiseDrop(pm, key), res |-> "nil", promise |-> NoPromise]
    ELSE [pm |-> pm, res |-> "promise", promise |-> pm[key]]

\* Fulfill, were it to leave the map as it is.
promiseFulfill_Keeps(pm, key) == pm

\* PromiseMap.Fulfill
promiseFulfill(pm, key) == PromiseDrop(pm, key)

\* The end of PromiseMap.RemainingTTL, once Get has returned (lines 129-136):
\* time.Until(promise.ExpiresAt), in milliseconds, read d milliseconds after
\* the clock has reached t.
remainingOf(res, promise, t, d) ==
    IF res = "nil" THEN 0
    ELSE IF (promise.ExpiresAt - t) * UnitMs - d < 0 THEN 0
    ELSE (promise.ExpiresAt - t) * UnitMs - d

\* PromiseMap.cleanupExpired
cleanupExpired(pm, t) == [k \in {x \in DOMAIN pm : ~(pm[x].ExpiresAt < t)} |-> pm[k]]

\* PromiseMap.Len
promiseLen(pm) == Cardinality(DOMAIN pm)

\* NewPromiseMap
NewPromiseMap == <<>>

\* NewPromiseMap, lines 36-38: stopChan is open, stopOnce unused, and the
\* cleanup goroutine is started; it sits in the select of cleanupLoop with no
\* tick in ticker.C.  stops counts the calls of Stop, late the cleanup passes
\* run while stopChan was closed.
NewReaper ==
    [pc |-> "select", ticker |-> FALSE, stopChan |-> "open", stopOnce |-> FALSE,
     panicked |-> FALSE, stops |-> 0, late |-> 0]

\* close(pm.stopChan): closing a closed channel panics.
closeStopChan(r) ==
    IF r.stopChan = "closed" THEN [r EXCEPT !.panicked = TRUE]
    ELSE [r EXCEPT !.stopChan = "closed"]

\* Stop, were stopChan closed on every call.
promiseStop_NoOnce(r) == closeStopChan(r)

\* PromiseMap.Stop: stopOnce.Do runs the close on the first call only; a
\* concurrent caller waits on the Once until the close is done.
promiseStop(r) ==
    IF r.stopOnce THEN r ELSE [closeStopChan(r) EXCEPT !.stopOnce = TRUE]

-----------------------------------------------------------------------------
(* The promise map under direct calls from concurrent goroutines.            *)

PmKeys == {"a", "b"}
PmSizes == {-1, 0, 2}
PmTTLs == {-1, 0, 1, 2}

Procs == {"g1", "g2"}

\* A goroutine that runs nothing.
IdleProc == [pc |-> "idle", key |-> Nil]

PmNoOp == [op |-> "none", key |-> Nil, size |-> 0, ttl |-> 0, ok |-> FALSE,
           res |-> "nil", promise |-> NoPromise, held |-> FALSE]

PmIdle == pmLast.op = "none"

pmOthersUnchanged ==
    UNCHANGED <<store, lru, memoryUsedBytes, last, useOrder, granted, requests,
                reaper, router, retry, okUploads, list>>

\* A goroutine calls Create(key, size, ttl): one step, under the write lock.
\* pmLast.held: the map held a live promise for the key when Create ran.
PmCreate(key, size, ttl) ==
    LET r == promiseCreate(promises, key, size, ttl, now)
    IN  /\ PmIdle
        /\ promises' = r.pm
        /\ pmLast' = [PmNoOp EXCEPT !.op = "create", !.key = key, !.size = size,
                                    !.ttl = ttl, !.ok = r.ok,
                                    !.held = (key \in DOMAIN promises
                                              /\ now < promises[key].ExpiresAt)]
        /\ UNCHANGED <<now, procs>>
        /\ pmOthersUnchanged

\* Goroutine g calls Get(key) and runs the part under the read lock.
PmGetRead(g, key) ==
    LET r == promiseGetRead(promises, key, now)
    IN  /\ PmIdle
        /\ procs[g].pc = "idle"
        /\ IF r.res = "expired"
           THEN /\ procs' = [procs EXCEPT ![g] = [pc |-> "get_w", key |-> key]]
                /\ UNCHANGED pmLast
           ELSE /\ pmLast' = [PmNoOp EXCEPT !.op = "get", !.key = key,
                                            !.res = r.res, !.promise = r.promise]
                /\ UNCHANGED procs
        /\ UNCHANGED <<promises, now>>
        /\ pmOthersUnchanged

\* Goroutine g, having seen an expired promise, runs the part of Get under
\* the write lock.
PmGetWrite(g) ==
    LET key == procs[g].key
        r   == promiseGetWrite(promises, key, now)
    IN  /\ PmIdle
        /\ procs[g].pc = "get_w"
        /\ promises' = r.pm
        /\ procs' = [procs EXCEPT ![g] = IdleProc]
        /\ pmLast' = [PmNoOp EXCEPT !.op = "get", !.key = key, !.res = r.res,
                                    !.promise = r.promise, !.held = TRUE]
        /\ UNCHANGED now
        /\ pmOthersUnchanged

\* A goroutine calls Fulfill(key).
PmFulfill(key) ==
    /\ PmIdle
    /\ promises' = promiseFulfill(promises, key)
    /\ pmLast' = [PmNoOp EXCEPT !.op = "fulfill", !.key = key]
    /\ UNCHANGED <<now, procs>>
    /\ pmOthersUnchanged

\* The cleanup goroutine's ticker fires and it runs cleanupExpired.
PmCleanup ==
    /\ PmIdle
    /\ promises' = cleanupExpired(promises, now)
    /\ pmLast' = [PmNoOp EXCEPT !.op = "cleanup"]
    /\ UNCHANGED <<now, procs>>
    /\ pmOthersUnchanged

\* The caller of the completed promise-map call takes its result.
PmReturn ==
    /\ ~PmIdle
    /\ pmLast' = PmNoOp
    /\ UNCHANGED <<promises, now, procs>>
    /\ pmOthersUnchanged

\* Time passes.
PmTick ==
    /\ PmIdle
    /\ now < MaxTime
    /\ now' = now + 1
    /\ UNCHANGED <<promises, pmLast, procs>>
    /\ pmOthersUnchanged

PromiseInit ==
    /\ promises = NewPromiseMap
    /\ pmLast = PmNoOp
    /\ procs = [g \in Procs |-> IdleProc]
    /\ now = 0
    /\ store = NewInMemoryStorage.store
    /\ lru = NewInMemoryStorage.lru
    /\ memoryUsedBytes = NewInMemoryStorage.mem
    /\ last = NoOp
    /\ useOrder = <<>>
    /\ granted = <<>>
    /\ requests = 0
    /\ reaper = NewReaper
    /\ router = <<>>
    /\ retry = <<>>
    /\ okUploads = <<>>
    /\ list = NewList

PromiseNext ==
    \/ \E key \in PmKeys, size \in PmSizes, ttl \in PmTTLs : PmCreate(key, size, ttl)
    \/ \E g \in Procs, key \in PmKeys : PmGetRead(g, key)
    \/ \E g \in Procs : PmGetWrite(g)
    \/ \E key \in PmKeys : PmFulfill(key)
    \/ PmCleanup
    \/ PmReturn
    \/ PmTick

\* The promise map under any interleaving of Create, Get, Fulfill and the
\* cleanup pass.
SpecPromise == PromiseInit /\ [][PromiseNext]_vars

\* The step is a call of Create.
IsCreate == PmIdle /\ pmLast'.op = "create"

\* What Create does when it grants: the key's promise is the new one and the
\* other keys keep theirs.
CreateGranted(key, size, expiresAt) ==
    /\ DOMAIN promises' = DOMAIN promises \cup {key}
    /\ promises'[key].Key = key
    /\ promises'[key].Size = size
    /\ promises'[key].ExpiresAt = expiresAt
    /\ \A k \in DOMAIN promises \ {key} : promises'[k] = promises[k]

\* C5, as claimed.  Create(key, size, ttl) returns true exactly when the map
\* holds no live promise for key; on true the map then holds one promise for
\* key with the given size and ExpiresAt = now + ttl; on false the map is
\* unchanged.
C5_CreateAsClaimed ==
    [][IsCreate
       => LET key == pmLast'.key
          IN  /\ pmLast'.ok <=> ~(key \in DOMAIN promises
                                  /\ now < promises[key].ExpiresAt)
              /\ pmLast'.ok => CreateGranted(key, pmLast'.size, now + pmLast'.ttl)
              /\ ~pmLast'.ok => promises' = promises]_vars

\* C5, amended.  As claimed, except that a ttl <= 0 stands for the default
\* of 30 s: ExpiresAt = now + ttl for ttl > 0 and now + defaultPromiseTTL
\* otherwise.  After any Create the key has a live promise, so of several
\* creates of one key that find no live promise, with nothing in between,
\* only the first returns true.
C5_CreateAmended ==
    [][IsCreate
       => LET key == pmLast'.key
              ttl == IF pmLast'.ttl > 0 THEN pmLast'.ttl ELSE defaultPromiseTTL
          IN  /\ pmLast'.ok <=> ~(key \in DOMAIN promises
                                  /\ now < promises[key].ExpiresAt)
              /\ pmLast'.ok => CreateGranted(key, pmLast'.size, now + ttl)
              /\ ~pmLast'.ok => promises' = promises
              /\ key \in DOMAIN promises' /\ now' < promises'[key].ExpiresAt]_vars

\* A Create that returned true over an expired promise while the other key's
\* live promise stayed in the map.
C5_Witness ==
    /\ pmLast.op = "create"
    /\ pmLast.ok
    /\ ~pmLast.held
    /\ pmLast.key \in DOMAIN promises
    /\ promises[pmLast.key].CreatedAt = now
    /\ now > 0
    /\ \E k \in DOMAIN promises : k # pmLast.key /\ promises[k].CreatedAt < now

\* The step ends a call of Get: its result is in pmLast'.
GetReturns == pmLast.op = "none" /\ pmLast'.op = "get"

\* C18: Get(key) returns a promise only if that promise is live (now <
\* ExpiresAt); when the key has no promise, or one with now >= ExpiresAt, at
\* the moment Get decides, Get returns nil, and the expired promise is out of
\* the map.
C18_GetReturnsOnlyLive ==
    [][GetReturns
       => LET key == pmLast'.key
          IN  /\ pmLast'.res = "promise" => now < pmLast'.promise.ExpiresAt
              /\ ~PromiseLive(promises, key, now)
                    => /\ pmLast'.res = "nil"
                       /\ key \notin DOMAIN promises']_vars

\* The step is the write-lock part of a Get by g, which saw an expired promise
\* under the read lock.
GetUpgraded(g) == procs[g].pc = "get_w" /\ procs'[g].pc = "idle"

\* C31: Get never deletes or hides a live promise.  A Get whose key has a live
\* promise when it decides returns that promise and leaves the map as it is;
\* so does the Get that saw an expired promise under the read lock and finds,
\* under the write lock, a live one that a Create has put in its place.
C31_GetKeepsLive ==
    [][/\ GetReturns /\ PromiseLive(promises, pmLast'.key, now)
            => /\ pmLast'.res = "promise"
               /\ pmLast'.promise = promises[pmLast'.key]
               /\ promises' = promises
       /\ \A g \in Procs :
            GetUpgraded(g) /\ PromiseLive(promises, procs[g].key, now)
                => /\ pmLast'.op = "get"
                   /\ pmLast'.key = procs[g].key
                   /\ pmLast'.res = "promise"
                   /\ pmLast'.promise = promises[procs[g].key]
                   /\ promises' = promises]_vars

\* A Get that went to the write lock has returned a promise created after
\* the clock had passed an earlier promise's expiry, and the promise is still
\* in the map.
C31_Witness ==
    /\ pmLast.op = "get"
    /\ pmLast.held
    /\ pmLast.res = "promise"
    /\ pmLast.promise.CreatedAt > 0
    /\ PromiseLive(promises, pmLast.key, now)
    /\ promises[pmLast.key] = pmLast.promise

-----------------------------------------------------------------------------
(* The cleanup goroutine of the promise map and Stop.  The clock unit is the *)
(* ticker's interval, so the ticker fires whenever the clock moves on.       *)

reaperOthersUnchanged ==
    UNCHANGED <<store, lru, memoryUsedBytes, last, useOrder, granted, requests,
                procs, pmLast, router, retry, okUploads, list>>

\* Time passes by one interval.  The ticker of cleanupLoop sends on ticker.C,
\* a channel that holds one tick; the deferred ticker.Stop() ends that when
\* the loop has returned.
ReaperClock ==
    /\ PmIdle
    /\ now < MaxTime
    /\ now' = now + 1
    /\ reaper' = [reaper EXCEPT !.ticker =
                     IF reaper.pc # "exited" /\ (now + 1) % promiseCleanupInterval = 0
                     THEN TRUE ELSE @]
    /\ UNCHANGED promises
    /\ reaperOthersUnchanged

\* cleanupLoop, line 146: the select takes the tick.  With stopChan closed as
\* well, the select chooses between its two ready cases.
ReaperTakeTick ==
    /\ reaper.pc = "select"
    /\ reaper.ticker
    /\ reaper' = [reaper EXCEPT !.pc = "pass", !.ticker = FALSE]
    /\ UNCHANGED <<promises, now>>
    /\ reaperOthersUnchanged

\* cleanupLoop, line 147: cleanupExpired, under the write lock, and back to
\* the select.
ReaperPass ==
    /\ reaper.pc = "pass"
    /\ promises' = cleanupExpired(promises, now)
    /\ reaper' = [reaper EXCEPT !.pc = "select",
                                !.late = IF reaper.stopChan = "closed" THEN @ + 1 ELSE @]
    /\ UNCHANGED now
    /\ reaperOthersUnchanged

\* cleanupLoop, lines 148-149: the select receives from the closed stopChan
\* and the goroutine returns.
ReaperExit ==
    /\ reaper.pc = "select"
    /\ reaper.stopChan = "closed"
    /\ reaper' = [reaper EXCEPT !.pc = "exited"]
    /\ UNCHANGED <<promises, now>>
    /\ reaperOthersUnchanged

\* A goroutine calls Stop().
PmStop ==
    /\ reaper.stops < MaxStops
    /\ ~reaper.panicked
    /\ reaper' = [promiseStop(reaper) EXCEPT !.stops = @ + 1]
    /\ UNCHANGED <<promises, now>>
    /\ reaperOthersUnchanged

\* The ttls of the promises created for the cleanup goroutine to find.
ReaperTTLs == {1, 2}

ReaperInit == PromiseInit

ReaperNext ==
    \/ \E key \in PmKeys, ttl \in ReaperTTLs : PmCreate(key, -1, ttl)
    \/ PmReturn
    \/ ReaperClock
    \/ ReaperTakeTick
    \/ ReaperPass
    \/ ReaperExit
    \/ PmStop

\* The promise map with its cleanup goroutine, under Create and Stop.
SpecReaper == ReaperInit /\ [][ReaperNext]_vars

\* The goroutine that has taken a tick is scheduled and gets the lock, so its
\* pass runs; a select that finds stopChan closed again and again chooses that
\* case in the end (the choice among ready cases is uniformly random).
SpecReaperFair ==
    /\ SpecReaper
    /\ WF_vars(ReaperPass)
    /\ SF_vars(ReaperExit)

\* The step is a pass of cleanupExpired run by the cleanup goroutine.
IsReaperPass == reaper.pc = "pass" /\ reaper'.pc = "select"

NeverPanics == [](~reaper.panicked)

StopLeadsToExit == (reaper.stopChan = "closed") ~> (reaper.pc = "exited")

\* C19 as claimed: no call of Stop, however many there are, panics; once
\* Stop has closed stopChan the cleanup goroutine exits in the end; and
\* from the first Stop on no cleanup pass runs.
C19_StopAsClaimed ==
    /\ NeverPanics
    /\ StopLeadsToExit
    /\ [][reaper.stopChan = "closed" => ~IsReaperPass]_vars

\* C19, amended: no call of Stop panics, and only the first closes stopChan;
\* once it is closed the cleanup goroutine exits in the end; after it has
\* exited it stays so and no pass runs (the promise map changes by calls of
\* its methods only).  Between the first Stop and the exit a pass can still
\* run, for a tick that the select took before or instead of the stop signal.
C19_StopAmended ==
    /\ NeverPanics
    /\ StopLeadsToExit
    /\ [][/\ reaper.stopChan = "closed" => reaper'.stopChan = "closed"
          /\ reaper.pc = "exited"
                => /\ reaper'.pc = "exited"
                   /\ ~IsReaperPass
                   /\ promises' # promises => pmLast'.op = "create"]_vars

\* Stop was called more than once, the cleanup goroutine has exited, and a
\* pass ran after the first Stop.
C19_Witness ==
    /\ reaper.stops >= 2
    /\ reaper.pc = "exited"
    /\ reaper.late > 0
    /\ ~reaper.panicked

\* The promise map with its cleanup goroutine while time goes on: the clock
\* advances however often the map is called (up to the end of the model's
\* clock), a caller takes the result of its call, and the cleanup goroutine,
\* once scheduled, takes a tick that is the only thing ready and runs its pass.
SpecReaperTimed ==
    /\ SpecReaperFair
    /\ SF_vars(ReaperClock)
    /\ WF_vars(PmReturn)
    /\ WF_vars(ReaperTakeTick)

\* A pass removes every promise that is expired when it runs.
PassRemovesExpired ==
    [][IsReaperPass
       => \A k \in DOMAIN promises :
             ~PromiseLive(promises, k, now) => k \notin DOMAIN promises']_vars

\* A pass removes no promise that is live when it runs.
PassKeepsLive ==
    [][IsReaperPass
       => \A k \in DOMAIN promises :
             PromiseLive(promises, k, now)
                => k \in DOMAIN promises' /\ promises'[k] = promises[k]]_vars

\* While stopChan is open, a promise that is expired (and whose expiry the
\* clock of the model can pass) leaves the map in the end, with no call of Get.
ExpiredLeadsToRemoved ==
    \A k \in PmKeys : \A e \in 1..(MaxTime - 1) :
        (/\ k \in DOMAIN promises
         /\ promises[k].ExpiresAt = e
         /\ e <= now
         /\ reaper.stopChan = "open")
            ~> (\/ ~(k \in DOMAIN promises /\ promises[k].ExpiresAt = e)
                \/ reaper.stopChan = "closed")

\* C32: each pass of the cleanup goroutine removes every promise that is
\* expired at the time of the pass and no promise that is live then; while
\* the map is not stopped, every expired promise is removed in the end even
\* if it is never accessed.
C32_ReaperAsClaimed ==
    /\ PassRemovesExpired
    /\ PassKeepsLive
    /\ ExpiredLeadsToRemoved

-----------------------------------------------------------------------------
(* The rendezvous router (internal/rendezvous/rendezvous.go).  A string that *)
(* is compared is a sequence of byte values.  The hasher (xxh3 over the key,  *)
(* the node's identity hash and the salt's seed) is any function from the     *)
(* nodes to scores: fixed for a key and a salt, and free to give equal        *)
(* scores.                                                                    *)

\* The bytes of a node id.
Bytes(id) == CASE id = "a" -> <<97>> [] id = "b" -> <<98>> [] OTHER -> <<>>

\* %d of fmt.Sprintf, for n >= 0.
RECURSIVE Itoa(_)
Itoa(n) == IF n < 10 THEN <<48 + n>> ELSE Itoa(n \div 10) \o <<48 + (n % 10)>>

\* Node.computeString: fmt.Sprintf("%s:%d", n.id, n.port)
computeString(id, port) == Bytes(id) \o <<58>> \o Itoa(port)

\* NewNode
NewNode(id, port) ==
    [id |-> id, port |-> port, identityString |-> computeString(id, port)]

\* a < b on Go strings: bytewise, a proper prefix first.
StringLess(a, b) ==
    \E i \in 1..Len(b) :
        /\ \A j \in 1..(i - 1) : j <= Len(a) /\ a[j] = b[j]
        /\ i > Len(a) \/ a[i] < b[i]

\* The nodes of the cluster: "a:2", "a:10" (which sorts before "a:2") and
\* "b:2".
RvNodes == {NewNode("a", 2), NewNode("a", 10), NewNode("b", 2)}

\* The node lists handed to SetNodes: any list, repetitions included.
NodeLists == UNION {[1..n -> RvNodes] : n \in 0..MaxNodes}

\* What the hasher can be for one key and salt.
Hashers == [RvNodes -> 0..MaxScore]

\* The values of k.
Ks == 0..MaxK

\* A nil *Node, and the zero nodeScore.
NilNode == [id |-> "", port |-> 0, identityString |-> <<>>]
ZeroScore == [node |-> NilNode, score |-> 0]

\* scoreBetter, were equal scores left unordered.
scoreBetter_NoTieBreak(a, b) == a.score > b.score

\* scoreBetter
scoreBetter(a, b) ==
    IF a.score # b.score THEN a.score > b.score
    ELSE StringLess(a.node.identityString, b.node.identityString)

\* computeScore (GetNodes, lines 82-85)
computeScore(node, hasher) == [node |-> node, score |-> hasher[node]]

\* GetNodes, lines 89-94: the loop of the k == 1 path from nodes[i] on.
RECURSIVE bestFrom(_, _, _, _)
bestFrom(nodes, hasher, i, best) ==
    IF i > Len(nodes) THEN best
    ELSE LET s == computeScore(nodes[i], hasher)
         IN  bestFrom(nodes, hasher, i + 1, IF scoreBetter(s, best) THEN s ELSE best)

\* The loop of the k == 2 path, were the old first not kept as the second
\* when a better node comes.
RECURSIVE topTwoFrom_DropsFirst(_, _, _, _, _)
topTwoFrom_DropsFirst(nodes, hasher, i, first, second) ==
    IF i > Len(nodes) THEN [first |-> first, second |-> second]
    ELSE LET s == computeScore(nodes[i], hasher)
         IN  IF scoreBetter(s, first)
             THEN topTwoFrom_DropsFirst(nodes, hasher, i + 1, s, second)
             ELSE IF second.node = NilNode \/ scoreBetter(s, second)
             THEN topTwoFrom_DropsFirst(nodes, hasher, i + 1, first, s)
             ELSE topTwoFrom_DropsFirst(nodes, hasher, i + 1, first, second)

\* GetNodes, lines 104-112: the loop of the k == 2 path from nodes[i] on.
RECURSIVE topTwoFrom(_, _, _, _, _)
topTwoFrom(nodes, hasher, i, first, second) ==
    IF i > Len(nodes) THEN [first |-> first, second |-> second]
    ELSE LET s == computeScore(nodes[i], hasher)
         IN  IF scoreBetter(s, first)
             THEN topTwoFrom(nodes, hasher, i + 1, s, first)
             ELSE IF second.node = NilNode \/ scoreBetter(s, second)
             THEN topTwoFrom(nodes, hasher, i + 1, first, s)
             ELSE topTwoFrom(nodes, hasher, i + 1, first, second)

\* The permutations of 1..n, for every length of a node list.
PermsUpTo ==
    [n \in 0..MaxNodes |->
        {p \in [1..n -> 1..n] : \A i, j \in 1..n : p[i] = p[j] => i = j}]

Perms(n) == PermsUpTo[n]

\* sort.Slice(scores, scoreBetter): the orders it can leave the slice in.  It
\* is not a stable sort, so elements of which neither is better than the
\* other come out in any order.
sortSlice(scores) ==
    {[i \in 1..Len(scores) |-> scores[p[i]]] :
        p \in {q \in Perms(Len(scores)) :
                  \A i, j \in 1..Len(scores) :
                      i < j => ~scoreBetter(scores[q[j]], scores[q[i]])}}

\* The first k elements of a sequence (all of it when it is shorter).
FirstK(seq, k) == SubSeq(seq, 1, IF k < Len(seq) THEN k ELSE Len(seq))

\* GetNodes, lines 120-138: the general case, for nodes # <<>> and k >= 1.
sortedTopK(nodes, hasher, k) ==
    {[i \in 1..Len(FirstK(sorted, k)) |-> sorted[i].node] :
        sorted \in sortSlice([i \in 1..Len(nodes) |-> computeScore(nodes[i], hasher)])}

\* RendezvousRouter.GetNodes: the results the call can have (nil is <<>>).
GetNodes(nodes, hasher, k) ==
    IF Len(nodes) = 0 \/ k <= 0 THEN {<<>>}
    ELSE IF k = 1
    THEN {<<bestFrom(nodes, hasher, 2, computeScore(nodes[1], hasher)).node>>}
    ELSE IF k = 2
    THEN LET t == topTwoFrom(nodes, hasher, 2, computeScore(nodes[1], hasher), ZeroScore)
         IN  IF t.second.node = NilNode THEN {<<t.first.node>>}
             ELSE {<<t.first.node, t.second.node>>}
    ELSE sortedTopK(nodes, hasher, k)

\* NewRendezvousRouter: the hasher of the salt, then SetNodes(nodes).  k and
\* out are the last call of GetNodes and its result; no call yet.
NewRendezvousRouter(nodes, hasher) ==
    [nodes |-> nodes, hasher |-> hasher, k |-> -1, out |-> <<>>]

routerOthersUnchanged ==
    UNCHANGED <<store, lru, memoryUsedBytes, now, last, useOrder, promises, pmLast,
                procs, granted, requests, reaper, retry, okUploads, list>>

\* SetNodes(nodes), after a call of GetNodes (before one, the router is as
\* if it had been built with these nodes).
RouterSetNodes(nodes) ==
    /\ router.k # -1
    /\ nodes # router.nodes
    /\ router' = [router EXCEPT !.nodes = nodes, !.k = -1, !.out = <<>>]
    /\ routerOthersUnchanged

\* GetNodes(key, k), for the key the hasher stands for.
RouterGetNodes(k) ==
    /\ \E out \in GetNodes(router.nodes, router.hasher, k) :
           router' = [router EXCEPT !.k = k, !.out = out]
    /\ routerOthersUnchanged

RendezvousInit ==
    /\ router \in {NewRendezvousRouter(nodes, hasher) :
                      nodes \in NodeLists, hasher \in Hashers}
    /\ store = <<>>
    /\ lru = [head |-> Nil, tail |-> Nil]
    /\ memoryUsedBytes = 0
    /\ now = 0
    /\ last = NoOp
    /\ useOrder = <<>>
    /\ promises = <<>>
    /\ pmLast = <<>>
    /\ procs = <<>>
    /\ granted = <<>>
    /\ requests = 0
    /\ reaper = <<>>
    /\ retry = <<>>
    /\ okUploads = <<>>
    /\ list = NewList

RendezvousNext ==
    \/ \E nodes \in NodeLists : RouterSetNodes(nodes)
    \/ \E k \in Ks : RouterGetNodes(k)

\* A router under SetNodes and GetNodes, for one key and one salt.
SpecRendezvous == RendezvousInit /\ [][RendezvousNext]_vars

\* Two nodes of the router that differ have the same score.
EqualScores ==
    \E i, j \in 1..Len(router.nodes) :
        /\ router.nodes[i] # router.nodes[j]
        /\ router.hasher[router.nodes[i]] = router.hasher[router.nodes[j]]

\* C20: with the nodes, the key and the salt fixed, the result of
\* GetNodes(key, k) is the first k elements of the result of
\* GetNodes(key, k + 1), for every k >= 1 and whichever of the two is
\* called first: the k == 1 and k == 2 paths and the sorting path agree, also
\* when nodes have equal scores.
C20_PrefixLaw ==
    [][(router'.nodes = router.nodes /\ router.k >= 1 /\ router'.k >= 1)
        => /\ router'.k = router.k + 1 => router.out = FirstK(router'.out, router.k)
           /\ router.k = router'.k + 1 => router'.out = FirstK(router.out, router'.k)
           /\ router'.k = router.k => router'.out = router.out]_vars

\* GetNodes(key, 3) has returned three nodes in the order of the sort, two of
\* them with equal scores and the best one not first in the node list.
C20_Witness ==
    /\ router.k = 3
    /\ Len(router.out) = 3
    /\ EqualScores
    /\ router.out[1] # router.nodes[1]
    /\ router.out[1] # router.out[2]

\* The lists that hold the nodes of the list `nodes` in another order.
Reorderings(nodes) ==
    {[i \in 1..Len(nodes) |-> nodes[p[i]]] : p \in Perms(Len(nodes))}

\* C21: with the key, the salt and k fixed, GetNodes returns the same list
\* of nodes whatever the order in which the nodes were handed to SetNodes:
\* the result of each call is the one result the call can have for every
\* permutation of the router's node list.
C21_OrderInvariance ==
    router.k # -1
        => \A nodes \in Reorderings(router.nodes) :
              GetNodes(nodes, router.hasher, router.k) = {router.out}

\* GetNodes(key, 2) has returned two of three different nodes, not the first
\* two of the node list, while two nodes have equal scores.
C21_Witness ==
    /\ router.k = 2
    /\ Len(router.nodes) = 3
    /\ \A i, j \in 1..3 : router.nodes[i] = router.nodes[j] => i = j
    /\ EqualScores
    /\ Len(router.out) = 2
    /\ router.out # FirstK(router.nodes, 2)

\* The nodes of the list differ in their identity strings.
DistinctIdentities(nodes) ==
    \A i, j \in 1..Len(nodes) :
        nodes[i].identityString = nodes[j].identityString => i = j

\* Node a ranks before node b: the higher score, or the same score and the
\* lower identity string.
RanksBefore(a, b, hasher) ==
    \/ hasher[a] > hasher[b]
    \/ hasher[a] = hasher[b] /\ StringLess(a.identityString, b.identityString)

\* The nodes by score descending, ties by ascending identity string.
Ranked(nodes, hasher) ==
    CHOOSE q \in Reorderings(nodes) :
        \A i, j \in 1..Len(q) : i < j => RanksBefore(q[i], q[j], hasher)

\* C38: for nodes with distinct identities and every k >= 1, GetNodes(key,
\* k) is the first min(k, |nodes|) of the nodes sorted by score descending
\* with ties broken by ascending identity string, and the single-pass paths
\* for k == 1 and k == 2 give what the sorting path gives for the same k.
C38_TopKOfRanking ==
    (router.k >= 1 /\ router.nodes # <<>> /\ DistinctIdentities(router.nodes))
        => /\ Len(router.out) = IF router.k < Len(router.nodes)
                                THEN router.k ELSE Len(router.nodes)
           /\ router.out = FirstK(Ranked(router.nodes, router.hasher), router.k)
           /\ GetNodes(router.nodes, router.hasher, router.k) = {router.out}
           /\ sortedTopK(router.nodes, router.hasher, router.k) = {router.out}

\* GetNodes(key, 2) on three different nodes: the best is the last of the
\* list, the second best the first, and the two have the same score.
C38_Witness ==
    /\ router.k = 2
    /\ Len(router.nodes) = 3
    /\ DistinctIdentities(router.nodes)
    /\ router.out = <<router.nodes[3], router.nodes[1]>>
    /\ router.hasher[router.nodes[3]] = router.hasher[router.nodes[1]]

-----------------------------------------------------------------------------
(* The router shared by goroutines.  Slices are kept by reference: heap maps *)
(* the id of a backing array to its elements, the caller of SetNodes owns    *)
(* the array CallerSlice and goes on writing to it, and router.cur is the    *)
(* array that atomic.Value holds.  A GetNodes call loads the array once and  *)
(* reads each of its elements once, whichever path it takes.                 *)

CallerSlice == 0

\* The nodes the caller puts in its slice of two, and the hashers (one key,
\* one salt) of the shared router.
SharedNodes == {NewNode("a", 2), NewNode("b", 2)}
SharedLists == [1..2 -> SharedNodes]
SharedHashers == [SharedNodes -> 0..1]

Readers == {"r1"}

\* A goroutine that is in no call of GetNodes.  snap is the array it loaded,
\* seen the elements read so far; at is the list the router held when it
\* loaded and swapsAt the number of SetNodes calls made by then.
ReaderIdle == [pc |-> "idle", k |-> 0, snap |-> 0, i |-> 0, seen |-> <<>>,
               out |-> <<>>, at |-> <<>>, swapsAt |-> 0]

\* SetNodes, were it to store the caller's slice itself.
SetNodes_StoresCallerSlice(r, slice) ==
    [r EXCEPT !.cur = slice, !.allocs = @ + 1]

\* RendezvousRouter.SetNodes: copied := make(...); copy(copied, nodes);
\* r.nodes.Store(copied).
SetNodes(r, slice) ==
    LET copied == r.allocs + 1
    IN  [r EXCEPT !.heap = [x \in DOMAIN r.heap \cup {copied} |->
                              IF x = copied THEN r.heap[slice] ELSE r.heap[x]],
                  !.cur = copied,
                  !.allocs = copied]

\* The arrays no goroutine and no router refers to are gone.
Collected(r, ps) ==
    LET live == {CallerSlice, r.cur}
                  \cup {ps[g].snap : g \in {x \in DOMAIN ps : ps[x].pc # "idle"}}
    IN  [r EXCEPT !.heap = [x \in DOMAIN r.heap \cap live |-> r.heap[x]]]

sharedOthersUnchanged ==
    UNCHANGED <<store, lru, memoryUsedBytes, now, last, useOrder, promises, pmLast,
                granted, requests, reaper, retry, okUploads, list>>

\* A goroutine calls SetNodes with the caller's slice.  given is the lists
\* SetNodes has been given, as they were at the calls.
SharedSetNodes ==
    /\ router.swaps < MaxSwaps
    /\ router' = Collected([SetNodes(router, CallerSlice) EXCEPT
                               !.swaps = @ + 1,
                               !.given = @ \cup {router.heap[CallerSlice]}],
                           procs)
    /\ UNCHANGED procs
    /\ sharedOthersUnchanged

\* The caller assigns to an element of its slice.
CallerWrites(i, node) ==
    /\ router.heap[CallerSlice][i] # node
    /\ router' = [router EXCEPT !.heap[CallerSlice][i] = node]
    /\ UNCHANGED procs
    /\ sharedOthersUnchanged

\* GetNodes, line 72: nodes := r.nodes.Load().
ReaderLoads(g, k) ==
    /\ procs[g].pc = "idle"
    /\ procs' = [procs EXCEPT ![g] =
          [ReaderIdle EXCEPT !.pc = "scan", !.k = k, !.snap = router.cur, !.i = 1,
                             !.at = router.heap[router.cur],
                             !.swapsAt = router.swaps]]
    /\ UNCHANGED router
    /\ sharedOthersUnchanged

\* GetNodes reads the next element of the array it loaded (nodes[0] and the
\* range loops of lines 89-90, 100-103 and 121).
ReaderReads(g) ==
    LET p == procs[g]
    IN  /\ p.pc = "scan"
        /\ p.k > 0
        /\ p.i <= Len(router.heap[p.snap])
        /\ procs' = [procs EXCEPT ![g] =
              [p EXCEPT !.seen = Append(@, router.heap[p.snap][p.i]), !.i = @ + 1]]
        /\ UNCHANGED router
        /\ sharedOthersUnchanged

\* GetNodes returns: the ranking of the elements it has read.
ReaderReturns(g) ==
    LET p == procs[g]
    IN  /\ p.pc = "scan"
        /\ p.k <= 0 \/ p.i > Len(router.heap[p.snap])
        /\ \E out \in GetNodes(p.seen, router.hasher, p.k) :
              procs' = [procs EXCEPT ![g] = [p EXCEPT !.pc = "done", !.out = out]]
        /\ UNCHANGED router
        /\ sharedOthersUnchanged

\* The caller of GetNodes takes the result.
ReaderDone(g) ==
    /\ procs[g].pc = "done"
    /\ procs' = [procs EXCEPT ![g] = ReaderIdle]
    /\ router' = Collected(router, procs')
    /\ sharedOthersUnchanged

\* NewRendezvousRouter(nodes, hashConfig) with the caller's slice: the
\* hasher, then SetNodes(nodes), which makes the first copy.  No array has
\* been made by the router before (allocs), and given holds this first list.
NewSharedRouter(nodes, hasher) ==
    SetNodes([hasher |-> hasher, heap |-> [x \in {CallerSlice} |-> nodes],
              cur |-> CallerSlice, allocs |-> 0, swaps |-> 0, given |-> {nodes}],
             CallerSlice)

SharedInit ==
    /\ router \in {NewSharedRouter(nodes, hasher) :
                      nodes \in SharedLists, hasher \in SharedHashers}
    /\ procs = [g \in Readers |-> ReaderIdle]
    /\ store = <<>>
    /\ lru = [head |-> Nil, tail |-> Nil]
    /\ memoryUsedBytes = 0
    /\ now = 0
    /\ last = NoOp
    /\ useOrder = <<>>
    /\ promises = <<>>
    /\ pmLast = <<>>
    /\ granted = <<>>
    /\ requests = 0
    /\ reaper = <<>>
    /\ retry = <<>>
    /\ okUploads = <<>>
    /\ list = NewList

SharedNext ==
    \/ SharedSetNodes
    \/ \E i \in 1..2, node \in SharedNodes : CallerWrites(i, node)
    \/ \E g \in Readers, k \in 0..3 : ReaderLoads(g, k)
    \/ \E g \in Readers : ReaderReads(g)
    \/ \E g \in Readers : ReaderReturns(g)
    \/ \E g \in Readers : ReaderDone(g)

\* One router under GetNodes calls that run while SetNodes is called and the
\* caller changes the slice it passed.
SpecRouterShared == SharedInit /\ [][SharedNext]_vars

\* C39: a GetNodes call that runs while SetNodes is called returns a ranking
\* computed from one node snapshot, the list the router held when the call
\* loaded it (the list before or the list after the swap), never a mix of
\* both; and a later change by the caller to the slice it passed to SetNodes
\* changes no result: every result is the ranking of a list as it was when
\* SetNodes was given it.
C39_OneSnapshot ==
    \A g \in Readers :
        procs[g].pc = "done"
            => /\ procs[g].k > 0 => procs[g].seen = procs[g].at
               /\ procs[g].at \in router.given
               /\ procs[g].out \in GetNodes(procs[g].at, router.hasher, procs[g].k)

\* A GetNodes call has returned the ranking of the list it loaded, after a
\* SetNodes that ran during the call stored another list and after the
\* caller changed the slice it had passed.
C39_Witness ==
    \E g \in Readers :
        /\ procs[g].pc = "done"
        /\ procs[g].k = 2
        /\ router.swaps > procs[g].swapsAt
        /\ router.heap[router.cur] # procs[g].at
        /\ router.heap[CallerSlice] \notin router.given
        /\ procs[g].out \notin GetNodes(router.heap[router.cur], router.hasher, 2)

-----------------------------------------------------------------------------
(* The cache server (internal/remote/remote.go): handleGet, handlePost and   *)
(* handlePut run by concurrent goroutines over one storage and one promise   *)
(* map.  A handler takes one step per call it makes into the storage (one    *)
(* mutex-protected call) or into the promise map (one lock-protected         *)
(* section); what it does locally in between belongs to the step before.     *)
(* A header is absent, bad (text ParseInt rejects) or the integer it parses *)
(* to; durations in headers are in clock units.                             *)

Absent == [kind |-> "absent", n |-> 0]
Bad == [kind |-> "bad", n |-> 0]
Int64(n) == [kind |-> "int", n |-> n]

SrvKeys == {"", "a", LongKey}
SizeHeaders == {Absent, Bad} \cup {Int64(n) : n \in {-1, 0, MaxMemory - 1, MaxMemory}}
PromiseTTLHeaders == {Absent, Bad, Int64(0), Int64(1)}
\* The x-jc-ttl header of an upload; HugeTTL is a number of milliseconds whose
\* nanoseconds do not fit an int64 (the 15 s clock unit is 1.5 * 10^10 ns, and
\* 614891470 units are more than 2^63 - 1 ns).
HugeTTL == Int64(614891470)
TTLHeaders == {Absent, Bad, Int64(0), Int64(1), HugeTTL}

\* handlePut, line 272: time.Duration(ttlMs) * time.Millisecond, a product
\* of int64: 2^63 ns or more wrap around by 2^64 ns (1229782938 clock units).
ttlOfHeader(n) == IF n > 614891469 THEN n - 1229782938 ELSE n
Bodies == {"", "x", Rep("f", MaxMemory - 1), Rep("g", MaxMemory)}
ContentLengths == {-1, 0, 1, MaxMemory - 1, MaxMemory, MaxValueSizeBytes + 1}
ReadOutcomes == {"ok", "too large", "failed"}

\* InMemoryStorage.CanFit
CanFit(keyLen, valueLen) == keyLen + valueLen <= MaxMemory

\* parseKeyFromPath, on the path "/cache/" + key: the key, or an error for an
\* empty one.
parseKeyFromPath(key) == IF key = "" THEN "invalid path" ELSE OK

\* A goroutine of the server that handles no request.  found is the promise
\* a handler got from promises.Get (or that made its Create return false),
\* removed the promise that its Fulfill took out of the map (NoPromise: none);
\* remaining and retryAfter are the x-jc-promise-ttl (milliseconds) and
\* Retry-After (seconds) headers of a 409.
SrvIdle == [pc |-> "idle", method |-> "", key |-> Nil, size |-> -1, pttl |-> 0,
            dry |-> FALSE, clen |-> 0, status |-> 0, why |-> "", remaining |-> 0,
            retryAfter |-> 0, found |-> NoPromise, removed |-> NoPromise]

\* The handler of goroutine g has written its response.
Responded(g, method, key, status, why) ==
    [SrvIdle EXCEPT !.pc = "done", !.method = method, !.key = key,
                    !.status = status, !.why = why]

srvStorageUnchanged == UNCHANGED <<store, lru, memoryUsedBytes, useOrder>>

\* No response is on its way to a client: a response is delivered before the
\* server is looked at again.
Delivered == \A g \in DOMAIN procs : procs[g].pc # "done"

\* The handler calls storage.Get(key) / storage.Put(...): the storage moves to
\* r.st and the use order follows.
SrvStorageCall(r, key) ==
    /\ SetStorage(r.st)
    /\ useOrder' = NextUseOrder(r.st, IF r.err = OK THEN key ELSE Nil)

\* handleGet
HandleGet(g, key) ==
    /\ Delivered
    /\ procs[g].pc = "idle"
    /\ requests < MaxRequests
    /\ requests' = requests + 1
    /\ IF parseKeyFromPath(key) # OK
       THEN /\ procs' = [procs EXCEPT ![g] = Responded(g, "GET", key, 400, "invalid path")]
            /\ srvStorageUnchanged
       ELSE \E r \in {Get(St, key, now)} :
                /\ SrvStorageCall(r, key)
                /\ procs' = [procs EXCEPT ![g] =
                     IF r.err = OK THEN Responded(g, "GET", key, 200, "hit")
                     ELSE IF r.err = ErrKeyNotFound
                     THEN Responded(g, "GET", key, 404, "miss")
                     ELSE Responded(g, "GET", key, 500, r.err)]
    /\ UNCHANGED <<now, last, reaper, router, retry, okUploads, promises, pmLast, granted, list>>

\* handlePost, lines 121-134: the probe of the storage.
PostBegin(g, key) ==
    /\ Delivered
    /\ procs[g].pc = "idle"
    /\ requests < MaxRequests
    /\ requests' = requests + 1
    /\ IF parseKeyFromPath(key) # OK
       THEN /\ procs' = [procs EXCEPT ![g] = Responded(g, "POST", key, 400, "invalid path")]
            /\ srvStorageUnchanged
       ELSE \E r \in {Get(St, key, now)} :
                /\ SrvStorageCall(r, key)
                /\ procs' = [procs EXCEPT ![g] =
                     IF r.err = OK THEN Responded(g, "POST", key, 200, "exists")
                     ELSE IF r.err # ErrKeyNotFound
                     THEN Responded(g, "POST", key, 500, r.err)
                     ELSE [SrvIdle EXCEPT !.pc = "post_check", !.method = "POST",
                                          !.key = key]]
    /\ UNCHANGED <<now, last, reaper, router, retry, okUploads, promises, pmLast, granted, list>>

\* handlePost's reading of the headers, were the size never held against the
\* capacity.
PostHeaders_NoCapacityCheck(key, sizeHdr, pttlHdr) ==
    IF sizeHdr # Absent /\ (sizeHdr = Bad \/ sizeHdr.n < 0)
    THEN [status |-> 400, why |-> "invalid size", size |-> -1, pttl |-> 0]
    ELSE IF pttlHdr # Absent /\ (pttlHdr = Bad \/ pttlHdr.n <= 0)
    THEN [status |-> 400, why |-> "invalid promise ttl", size |-> -1, pttl |-> 0]
    ELSE [status |-> 0, why |-> "",
          size |-> IF sizeHdr = Absent THEN -1 ELSE sizeHdr.n,
          pttl |-> IF pttlHdr = Absent THEN defaultPromiseTTL ELSE pttlHdr.n]

\* handlePost, lines 136-162: what the headers make of the request: a
\* response that ends it, or the size and the promise ttl to go on with.
PostHeaders(key, sizeHdr, pttlHdr) ==
    IF sizeHdr # Absent /\ (sizeHdr = Bad \/ sizeHdr.n < 0)
    THEN [status |-> 400, why |-> "invalid size", size |-> -1, pttl |-> 0]
    ELSE IF sizeHdr # Absent /\ ~CanFit(Len(key), sizeHdr.n)
    THEN [status |-> 507, why |-> "too large", size |-> -1, pttl |-> 0]
    ELSE IF pttlHdr # Absent /\ (pttlHdr = Bad \/ pttlHdr.n <= 0)
    THEN [status |-> 400, why |-> "invalid promise ttl", size |-> -1, pttl |-> 0]
    ELSE [status |-> 0, why |-> "",
          size |-> IF sizeHdr = Absent THEN -1 ELSE sizeHdr.n,
          pttl |-> IF pttlHdr = Absent THEN defaultPromiseTTL ELSE pttlHdr.n]

\* handlePost after promises.Get(key), were the dry-run header ignored.
PostAfterGet_DryCreates(p, res) ==
    IF res = "promise"
    THEN [p EXCEPT !.pc = "post_remaining", !.why = "promise found",
                   !.size = -1, !.pttl = 0]
    ELSE [p EXCEPT !.pc = "post_create"]

\* handlePost after promises.Get(key) has returned res (lines 168-185):
\* conflict, the dry-run answer, or on to Create.
PostAfterGet(p, res) ==
    IF res = "promise"
    THEN [p EXCEPT !.pc = "post_remaining", !.why = "promise found",
                   !.size = -1, !.pttl = 0]
    ELSE IF p.dry THEN [p EXCEPT !.pc = "done", !.status = 202, !.why = "dry run"]
    ELSE [p EXCEPT !.pc = "post_create"]

\* The handler on its way to the conflict response keeps the promise that
\* sent it there.
WithFound(p, promise) ==
    IF p.pc = "post_remaining" THEN [p EXCEPT !.found = promise] ELSE p

\* handlePost, lines 136-168: the headers, then promises.Get(key) under the
\* read lock.
PostCheck(g, sizeHdr, pttlHdr, dry) ==
    LET p  == procs[g]
        h  == PostHeaders(p.key, sizeHdr, pttlHdr)
        rd == promiseGetRead(promises, p.key, now)
        p2 == [p EXCEPT !.size = h.size, !.pttl = h.pttl, !.dry = dry]
    IN  /\ Delivered
        /\ p.pc = "post_check"
        /\ procs' = [procs EXCEPT ![g] =
              IF h.status # 0 THEN Responded(g, "POST", p.key, h.status, h.why)
              ELSE IF rd.res = "expired" THEN [p2 EXCEPT !.pc = "post_check_w"]
              ELSE WithFound(PostAfterGet(p2, rd.res), rd.promise)]
        /\ srvStorageUnchanged
        /\ UNCHANGED <<now, last, reaper, router, retry, okUploads, requests, promises, pmLast, granted, list>>

\* handlePost, line 168: promises.Get(key) under the write lock.
PostCheckW(g) ==
    LET p == procs[g]
        r == promiseGetWrite(promises, p.key, now)
    IN  /\ Delivered
        /\ p.pc = "post_check_w"
        /\ promises' = r.pm
        /\ procs' = [procs EXCEPT ![g] = WithFound(PostAfterGet(p, r.res), r.promise)]
        /\ srvStorageUnchanged
        /\ UNCHANGED <<now, last, reaper, router, retry, okUploads, requests, pmLast, granted, list>>

\* handlePost, lines 185-196: promises.Create.
PostCreate(g) ==
    LET p == procs[g]
        r == promiseCreate(promises, p.key, p.size, p.pttl, now)
    IN  /\ Delivered
        /\ p.pc = "post_create"
        /\ promises' = r.pm
        /\ procs' = [procs EXCEPT ![g] =
              IF r.ok THEN [p EXCEPT !.pc = "done", !.status = 202, !.why = "promise"]
              ELSE [p EXCEPT !.pc = "post_remaining", !.why = "create refused",
                             !.size = -1, !.pttl = 0, !.found = promises[p.key]]]
        /\ granted' = IF r.ok
                      THEN [k \in DOMAIN granted \cup {p.key} |->
                               IF k = p.key THEN r.pm[p.key] ELSE granted[k]]
                      ELSE granted
        /\ okUploads' = IF r.ok
                        THEN [k \in DOMAIN okUploads \cup {p.key} |->
                                 IF k = p.key THEN 0 ELSE okUploads[k]]
                        ELSE okUploads
        /\ srvStorageUnchanged
        /\ UNCHANGED <<now, last, reaper, router, retry, requests, pmLast, list>>

\* The times within a clock unit at which RemainingTTL reads the clock, in
\* milliseconds since the unit began.
SinceTick == {0, 500}

\* int(remainingTTL.Seconds()) + 1: the conversion to int drops the fraction.
retryAfterOf(remainingMs) == (remainingMs \div 1000) + 1

\* The 409 of handlePost with the headers it carries (lines 170-174 and
\* 187-191): the remaining ttl in milliseconds and Retry-After in seconds.
PostConflict(p, res, promise, t, d) ==
    LET remainingTTL == remainingOf(res, promise, t, d)
    IN  [p EXCEPT !.pc = "done", !.status = 409,
                  !.remaining = remainingTTL,
                  !.retryAfter = retryAfterOf(remainingTTL),
                  !.found = NoPromise]

\* handlePost, lines 170 / 187: promises.RemainingTTL(key), its Get under the
\* read lock.
PostRemaining(g, d) ==
    LET p  == procs[g]
        rd == promiseGetRead(promises, p.key, now)
    IN  /\ Delivered
        /\ p.pc = "post_remaining"
        /\ procs' = [procs EXCEPT ![g] =
              IF rd.res = "expired" THEN [p EXCEPT !.pc = "post_remaining_w"]
              ELSE PostConflict(p, rd.res, rd.promise, now, d)]
        /\ srvStorageUnchanged
        /\ UNCHANGED <<now, last, reaper, router, retry, okUploads, requests, promises, pmLast, granted, list>>

\* handlePost, lines 170 / 187: promises.RemainingTTL(key), its Get under the
\* write lock.
PostRemainingW(g, d) ==
    LET p == procs[g]
        r == promiseGetWrite(promises, p.key, now)
    IN  /\ Delivered
        /\ p.pc = "post_remaining_w"
        /\ promises' = r.pm
        /\ procs' = [procs EXCEPT ![g] = PostConflict(p, r.res, r.promise, now, d)]
        /\ srvStorageUnchanged
        /\ UNCHANGED <<now, last, reaper, router, retry, okUploads, requests, pmLast, granted, list>>

\* handlePut after promises.Get(key), were the size mismatch answered without
\* releasing the promise.
PutAfterGet_KeepsPromise(p, res, promise) ==
    IF res # "promise"
    THEN [p EXCEPT !.pc = "done", !.status = 409, !.why = "no promise"]
    ELSE IF promise.Size >= 0 /\ p.clen # promise.Size
    THEN [p EXCEPT !.pc = "done", !.status = 409, !.why = "size mismatch"]
    ELSE [p EXCEPT !.pc = "put_store", !.found = promise]

\* handlePut after promises.Get(key) has returned (lines 221-232): no
\* promise, a size mismatch that releases the promise, or on to the body.
PutAfterGet(p, res, promise) ==
    IF res # "promise"
    THEN [p EXCEPT !.pc = "done", !.status = 409, !.why = "no promise"]
    ELSE IF promise.Size >= 0 /\ p.clen # promise.Size
    THEN [p EXCEPT !.pc = "put_fulfill", !.clen = 0, !.status = 409, !.why = "size mismatch",
                   !.found = promise]
    ELSE [p EXCEPT !.pc = "put_store", !.found = promise]

\* handlePut, lines 206-232: the Content-Length checks, then
\* promises.Get(key) under the read lock.
PutBegin(g, key, clen) ==
    LET p  == [SrvIdle EXCEPT !.method = "PUT", !.key = key, !.clen = clen]
        rd == promiseGetRead(promises, key, now)
    IN  /\ Delivered
        /\ procs[g].pc = "idle"
        /\ requests < MaxRequests
        /\ requests' = requests + 1
        /\ procs' = [procs EXCEPT ![g] =
              IF parseKeyFromPath(key) # OK
              THEN Responded(g, "PUT", key, 400, "invalid path")
              ELSE IF clen < 0 THEN Responded(g, "PUT", key, 411, "length required")
              ELSE IF clen > MaxValueSizeBytes
              THEN Responded(g, "PUT", key, 413, "content length over cap")
              ELSE IF rd.res = "expired" THEN [p EXCEPT !.pc = "put_get_w"]
              ELSE PutAfterGet(p, rd.res, rd.promise)]
        /\ srvStorageUnchanged
        /\ UNCHANGED <<now, last, reaper, router, retry, okUploads, promises, pmLast, granted, list>>

\* handlePut, line 220: promises.Get(key) under the write lock.
PutGetW(g) ==
    LET p == procs[g]
        r == promiseGetWrite(promises, p.key, now)
    IN  /\ Delivered
        /\ p.pc = "put_get_w"
        /\ promises' = r.pm
        /\ procs' = [procs EXCEPT ![g] = PutAfterGet(p, r.res, r.promise)]
        /\ srvStorageUnchanged
        /\ UNCHANGED <<now, last, reaper, router, retry, okUploads, requests, pmLast, granted, list>>

\* handlePut's response for the error of storage.Put, were a full store
\* taken for a terminal error.
PutErrorResponse_ReleasesOnFull(p, err) ==
    IF err = ErrMemoryLimitExceeded
    THEN [p EXCEPT !.pc = "put_fulfill", !.clen = 0, !.status = 507, !.why = err]
    ELSE IF err = ErrObjectTooLarge
    THEN [p EXCEPT !.pc = "put_fulfill", !.clen = 0, !.status = 413, !.why = err]
    ELSE IF err \in {ErrKeyTooLong, ErrKeyTooShort, ErrValueTooShort}
    THEN [p EXCEPT !.pc = "put_fulfill", !.clen = 0, !.status = 400, !.why = err]
    ELSE [p EXCEPT !.pc = "done", !.status = 500, !.why = err]

\* handlePut, lines 276-303: the response for the error of storage.Put, and
\* whether the promise is released first.
PutErrorResponse(p, err) ==
    IF err = ErrMemoryLimitExceeded
    THEN [p EXCEPT !.pc = "done", !.status = 507, !.why = err]
    ELSE IF err = ErrObjectTooLarge
    THEN [p EXCEPT !.pc = "put_fulfill", !.clen = 0, !.status = 413, !.why = err]
    ELSE IF err \in {ErrKeyTooLong, ErrKeyTooShort, ErrValueTooShort}
    THEN [p EXCEPT !.pc = "put_fulfill", !.clen = 0, !.status = 400, !.why = err]
    ELSE [p EXCEPT !.pc = "done", !.status = 500, !.why = err]

\* handlePut, lines 234-303: the body is read (as the transport delivers it:
\* whole, short, over the cap, or failing), the ttl header parsed and the
\* value stored.
PutStore(g, body, outcome, ttlHdr) ==
    LET p   == procs[g]
        ttl == IF ttlHdr = Absent THEN defaultTTL ELSE ttlOfHeader(ttlHdr.n)
        early ==
            IF outcome = "too large"
            THEN [p EXCEPT !.pc = "put_fulfill", !.clen = 0, !.status = 413, !.why = "body over cap"]
            ELSE IF outcome = "failed"
            THEN [p EXCEPT !.pc = "done", !.status = 400, !.why = "read failed"]
            ELSE IF Len(body) # p.clen
            THEN [p EXCEPT !.pc = "done", !.status = 400, !.why = "incomplete body"]
            ELSE IF ttlHdr # Absent /\ (ttlHdr = Bad \/ ttlHdr.n <= 0)
            THEN [p EXCEPT !.pc = "done", !.status = 400, !.why = "invalid ttl"]
            ELSE p
    IN  /\ Delivered
        /\ p.pc = "put_store"
        /\ Len(body) <= p.clen
        /\ IF early # p
           THEN /\ procs' = [procs EXCEPT ![g] = early]
                /\ srvStorageUnchanged
           ELSE \E r \in {Put(St, p.key, body, ttl, now)} :
                /\ SrvStorageCall(r, p.key)
                /\ procs' = [procs EXCEPT ![g] =
                      IF r.err = OK
                      THEN [p EXCEPT !.pc = "put_fulfill", !.clen = 0, !.status = 200, !.why = "stored"]
                      ELSE PutErrorResponse(p, r.err)]
        /\ UNCHANGED <<now, last, reaper, router, retry, okUploads, requests, promises, pmLast, granted, list>>

\* handlePut, lines 229 / 246 / 300 / 306: promises.Fulfill(key), then the
\* response.
PutFulfill(g) ==
    LET p == procs[g]
    IN  /\ Delivered
        /\ p.pc = "put_fulfill"
        /\ promises' = promiseFulfill(promises, p.key)
        /\ granted' = PromiseDrop(granted, p.key)
        /\ okUploads' = IF p.status = 200 /\ p.key \in DOMAIN okUploads
                        THEN [okUploads EXCEPT ![p.key] = @ + 1]
                        ELSE okUploads
        /\ procs' = [procs EXCEPT ![g] =
              [p EXCEPT !.pc = "done",
                        !.removed = IF p.key \in DOMAIN promises
                                    THEN promises[p.key] ELSE NoPromise]]
        /\ srvStorageUnchanged
        /\ UNCHANGED <<now, last, reaper, router, retry, requests, pmLast, list>>

\* The client of goroutine g has its response; g is free for another request.
SrvFinish(g) ==
    /\ procs[g].pc = "done"
    /\ procs' = [procs EXCEPT ![g] = SrvIdle]
    /\ srvStorageUnchanged
    /\ UNCHANGED <<now, last, reaper, router, retry, okUploads, requests, promises, pmLast, granted, list>>

\* cleanupLoop: the ticker fires and cleanupExpired runs.
SrvCleanup ==
    /\ Delivered
    /\ promises' = cleanupExpired(promises, now)
    /\ promises' # promises
    /\ srvStorageUnchanged
    /\ UNCHANGED <<now, last, reaper, router, retry, okUploads, requests, pmLast, procs, granted, list>>

\* Time passes.
SrvTick ==
    /\ Delivered
    /\ now < MaxTime
    /\ now' = now + 1
    /\ srvStorageUnchanged
    /\ UNCHANGED <<last, reaper, router, retry, okUploads, requests, promises, pmLast, procs, granted, list>>

\* The storage the server is started over (NewCacheServer is handed its
\* store): it already holds the key "b", put at time 0 with the default ttl.
ServerStorage == Put(NewInMemoryStorage, "b", "x", defaultTTL, 0).st

ServerInit ==
    /\ store = ServerStorage.store
    /\ lru = ServerStorage.lru
    /\ memoryUsedBytes = ServerStorage.mem
    /\ useOrder = LruKeys(ServerStorage)
    /\ now = 0
    /\ last = NoOp
    /\ promises = NewPromiseMap
    /\ pmLast = PmNoOp
    /\ procs = [g \in Procs |-> SrvIdle]
    /\ granted = <<>>
    /\ requests = 0
    /\ reaper = NewReaper
    /\ router = <<>>
    /\ retry = <<>>
    /\ okUploads = <<>>
    /\ list = NewList

ServerNext ==
    \/ \E g \in Procs, key \in SrvKeys : HandleGet(g, key)
    \/ \E g \in Procs, key \in SrvKeys : PostBegin(g, key)
    \/ \E g \in Procs, sizeHdr \in SizeHeaders, pttlHdr \in PromiseTTLHeaders,
          dry \in BOOLEAN : PostCheck(g, sizeHdr, pttlHdr, dry)
    \/ \E g \in Procs : PostCheckW(g)
    \/ \E g \in Procs : PostCreate(g)
    \/ \E g \in Procs, d \in SinceTick : PostRemaining(g, d)
    \/ \E g \in Procs, d \in SinceTick : PostRemainingW(g, d)
    \/ \E g \in Procs, key \in SrvKeys, clen \in ContentLengths : PutBegin(g, key, clen)
    \/ \E g \in Procs : PutGetW(g)
    \/ \E g \in Procs, body \in Bodies, outcome \in ReadOutcomes,
          ttlHdr \in TTLHeaders : PutStore(g, body, outcome, ttlHdr)
    \/ \E g \in Procs : PutFulfill(g)
    \/ \E g \in Procs : SrvFinish(g)
    \/ SrvCleanup
    \/ SrvTick

\* The server under any interleaving of its request handlers.
SpecServer == ServerInit /\ [][ServerNext]_vars

-----------------------------------------------------------------------------
(* Properties of the server.                                                 *)

\* An Accepted intend holds the promise of key, which no upload has released
\* and which has not expired.
PromiseHeld(key) == key \in DOMAIN granted /\ granted[key].ExpiresAt > now

\* The handler of g is past the storage probe of a POST.
InPost(g) ==
    procs[g].pc \in {"post_check", "post_check_w", "post_create",
                     "post_remaining", "post_remaining_w"}

\* C3: while an Accepted non-dry-run intend holds the promise of a key (the
\* promise has not expired and no upload has released it), every step of
\* another non-dry-run intend for the key that has found no live stored entry
\* leads to Conflict: it is never Accepted, it goes on to the conflict
\* response or is refused for its own headers (400, 507), and once on the way
\* to the conflict response it answers 409 and nothing else.
C3_HeldPromiseConflicts ==
    [][\A g \in Procs :
          (InPost(g) /\ procs'[g] # procs[g] /\ ~procs'[g].dry) =>
              /\ PromiseHeld(procs[g].key) =>
                    \/ procs'[g].pc \in {"post_remaining", "post_remaining_w"}
                    \/ /\ procs'[g].pc = "done"
                       /\ procs'[g].status \in {400, 409, 507}
              /\ (procs[g].pc \in {"post_remaining", "post_remaining_w"}
                  /\ procs'[g].pc = "done") => procs'[g].status = 409]_vars

\* C3 witness: two intends raced to Create; one was Accepted and holds the
\* promise, the other was refused by Create and reports Conflict.
C3_Witness ==
    \E g \in Procs :
        /\ procs[g].pc = "done"
        /\ procs[g].method = "POST"
        /\ procs[g].status = 409
        /\ procs[g].why = "create refused"
        /\ ~procs[g].dry
        /\ PromiseHeld(procs[g].key)

\* The handler of g has taken a step.
Stepped(g) == procs'[g] # procs[g]

\* This step is the start of an upload by g that passes the checks of its
\* path and its Content-Length and so looks for the promise of its key.
PutLooksUp(g) ==
    /\ procs[g].pc = "idle"
    /\ procs'[g].method = "PUT"
    /\ ~(procs'[g].pc = "done" /\ procs'[g].status \in {400, 411, 413})

\* g answers 409 for want of a promise.
NoPromiseAnswer(p) == p.pc = "done" /\ p.status = 409 /\ p.why = "no promise"

StorageSame == <<store, lru, memoryUsedBytes>>' = <<store, lru, memoryUsedBytes>>

\* C12: an upload that looks for the promise of its key while the key has no
\* live promise (none, or one with now >= expires_at) is answered 409 "no
\* promise", and neither the storage nor the promise map changes: under
\* the read lock it answers 409 or goes on to the write lock, under the write
\* lock it answers 409, and no step of the two changes the storage or the map.
C12_NoPromiseRejected ==
    [][\A g \in Procs :
          /\ (PutLooksUp(g) /\ ~PromiseLive(promises, procs'[g].key, now))
                => /\ NoPromiseAnswer(procs'[g]) \/ procs'[g].pc = "put_get_w"
                   /\ promises' = promises
                   /\ StorageSame
          /\ (procs[g].pc = "put_get_w" /\ Stepped(g)
                /\ ~PromiseLive(promises, procs[g].key, now))
                => /\ NoPromiseAnswer(procs'[g])
                   /\ promises' = promises
                   /\ StorageSame]_vars

\* C12, with the removal of the key's expired promise allowed: also then an
\* upload at now = expires_at is not answered 409.
C12_NoPromiseRejectedButReaped ==
    [][\A g \in Procs :
          (procs[g].pc = "put_get_w" /\ Stepped(g)
                /\ ~PromiseLive(promises, procs[g].key, now))
                => /\ NoPromiseAnswer(procs'[g])
                   /\ promises' \in {promises, PromiseDrop(promises, procs[g].key)}
                   /\ StorageSame]_vars

\* The lookup of the promise by the upload of g ends in this step, with the
\* promise of the key: the upload is neither refused for want of a promise
\* nor on its way to the write lock.
PutFoundPromise(g) ==
    /\ PutLooksUp(g) \/ (procs[g].pc = "put_get_w" /\ Stepped(g))
    /\ procs'[g].pc # "put_get_w"
    /\ ~NoPromiseAnswer(procs'[g])

\* An intend for key that came to Create in the promise map pm at time t would
\* be granted the promise, whatever its size and ttl.
NextIntendAccepted(pm, key, t) ==
    /\ promiseGetRead(pm, key, t).res = "nil"
    /\ \A size \in PmSizes, ttl \in PmTTLs : promiseCreate(pm, key, size, ttl, t).ok

\* C13: an upload that finds the promise of its key with a positive size other
\* than its Content-Length goes on to no body and no store: it answers 409
\* "size mismatch", the storage is as it was, and once it has answered, the
\* key has no promise, so the next intend for the key is granted one.
C13_SizeMismatchReleases ==
    [][\A g \in Procs :
          /\ (PutFoundPromise(g)
                /\ promises[procs'[g].key].Size > 0
                /\ (procs'[g].pc = "put_store" =>
                        procs'[g].clen # promises[procs'[g].key].Size))
                => /\ procs'[g].pc = "put_fulfill"
                   /\ procs'[g].status = 409
                   /\ procs'[g].why = "size mismatch"
                   /\ StorageSame
          /\ (procs[g].pc = "put_fulfill" /\ procs[g].why = "size mismatch"
                /\ Stepped(g))
                => /\ procs'[g].pc = "done"
                   /\ procs'[g].status = 409
                   /\ StorageSame
                   /\ procs[g].key \notin DOMAIN promises'
                   /\ NextIntendAccepted(promises', procs[g].key, now')]_vars

\* An upload was answered 409 for a size mismatch; the promise it found is
\* gone, and the key has no stored entry.
C13_Witness ==
    \E g \in Procs :
        /\ procs[g].pc = "done"
        /\ procs[g].method = "PUT"
        /\ procs[g].status = 409
        /\ procs[g].why = "size mismatch"
        /\ procs[g].key \notin DOMAIN promises
        /\ procs[g].key \notin DOMAIN store

\* The outcomes of an upload after which handlePut releases the promise:
\* stored, a size mismatch, a body over the cap, an object that can never
\* fit, an invalid key, an empty value.
TerminalOutcome(p) ==
    \/ p.status = 200
    \/ p.status = 409 /\ p.why = "size mismatch"
    \/ p.status = 413
    \/ p.status = 400 /\ p.why \in {ErrKeyTooLong, ErrKeyTooShort, ErrValueTooShort}

\* The outcomes after which the client may retry under its promise: a body
\* that failed or fell short, an unusable ttl header, a full store, an
\* unknown storage error.
TransientOutcome(p) ==
    \/ p.status = 400 /\ p.why \in {"read failed", "incomplete body", "invalid ttl"}
    \/ p.status = 507
    \/ p.status = 500

\* C14: an upload that found the promise of its key returns either with a
\* terminal outcome or OK, and then its key has no promise in the map, or
\* with a transient outcome, and then no step of it since the lookup has
\* touched the promise map: the promise it found is in place as it was, and
\* while it is live a retried upload finds it.
C14_PromiseReleasedIffTerminal ==
    [][\A g \in Procs :
          /\ (procs[g].pc = "put_store" /\ Stepped(g))
                => /\ promises' = promises
                   /\ procs'[g].pc \in {"put_fulfill", "done"}
                   /\ procs'[g].pc = "put_fulfill" <=> TerminalOutcome(procs'[g])
                   /\ procs'[g].pc = "done" <=> TransientOutcome(procs'[g])
                   /\ (procs'[g].pc = "done"
                         /\ PromiseLive(promises, procs[g].key, now))
                        => promiseGetRead(promises', procs[g].key, now').res = "promise"
          /\ (procs[g].pc = "put_fulfill" /\ Stepped(g))
                => /\ procs'[g].pc = "done"
                   /\ TerminalOutcome(procs'[g])
                   /\ procs[g].key \notin DOMAIN promises']_vars

\* An upload under a promise was refused for a full store (507), and the
\* promise is still there and live.
C14_Witness ==
    \E g \in Procs :
        /\ procs[g].pc = "done"
        /\ procs[g].method = "PUT"
        /\ procs[g].status = 507
        /\ PromiseLive(promises, procs[g].key, now)

\* This step ends a dry-run intend of g with Accepted.
DryRunAccepted(g) ==
    /\ InPost(g)
    /\ procs'[g].pc = "done"
    /\ procs'[g].status = 202
    /\ procs'[g].dry

\* C15 as claimed: the step in which a dry-run intend is Accepted leaves the
\* promise map as it was, and a non-dry-run intend for the key that follows
\* at once is granted the promise.
C15_DryRunAsClaimed ==
    [][\A g \in Procs :
          DryRunAccepted(g)
             => /\ promises' = promises
                /\ NextIntendAccepted(promises', procs[g].key, now')]_vars

\* C15, amended: a dry-run intend that is Accepted creates and modifies no
\* promise and removes none but an expired promise of its own key (one with
\* expires_at < now, which PromiseMap.Get deletes on the way), and a
\* non-dry-run intend for the key that follows at once is granted the promise.
C15_DryRunAmended ==
    [][\A g \in Procs :
          /\ (InPost(g) /\ Stepped(g) /\ procs[g].dry /\ procs[g].pc = "post_check_w")
                => /\ promises' \in {promises, PromiseDrop(promises, procs[g].key)}
                   /\ promises' # promises => promises[procs[g].key].ExpiresAt < now
          /\ (procs[g].pc = "post_check" /\ Stepped(g)) => promises' = promises
          /\ DryRunAccepted(g)
                => /\ procs[g].pc \in {"post_check", "post_check_w"}
                   /\ NextIntendAccepted(promises', procs[g].key, now')]_vars

\* A dry-run intend was Accepted for a key whose promise, granted earlier and
\* never released by an upload, is no longer in the map.
C15_Witness ==
    \E g \in Procs :
        /\ procs[g].pc = "done"
        /\ procs[g].method = "POST"
        /\ procs[g].status = 202
        /\ procs[g].dry
        /\ procs[g].why = "dry run"
        /\ procs[g].key \in DOMAIN granted
        /\ procs[g].key \notin DOMAIN promises

\* The size hints that parse as a non-negative integer: every size up to one
\* byte over the capacity.
ValidSizeHints == {Int64(n) : n \in 0..(MaxMemory + 1)}

\* g is answered InsufficientStorage.
InsufficientStorage(p) == p.pc = "done" /\ p.method = "POST" /\ p.status = 507

\* C16: an intend that found no live stored entry for its key and reads its
\* headers answers InsufficientStorage for a valid size hint exactly when
\* len(key) + size_hint > memory cap (a hint that fills the cap exactly is
\* let through), whatever the other headers; InsufficientStorage is answered
\* only there, and the step that answers it leaves the promise map alone.
C16_InsufficientStorageIffOverCap ==
    [][\A g \in Procs :
          /\ (procs[g].pc = "post_check" /\ Stepped(g))
                => /\ \A sizeHdr \in ValidSizeHints, pttlHdr \in PromiseTTLHeaders :
                         PostHeaders(procs[g].key, sizeHdr, pttlHdr).status = 507
                            <=> Len(procs[g].key) + sizeHdr.n > MaxMemory
                   /\ InsufficientStorage(procs'[g]) => promises' = promises
          /\ (Stepped(g) /\ InsufficientStorage(procs'[g]))
                => procs[g].pc = "post_check"]_vars

\* An intend was answered InsufficientStorage, and its key has no promise.
C16_Witness ==
    \E g \in Procs :
        /\ InsufficientStorage(procs[g])
        /\ procs[g].why = "too large"
        /\ procs[g].key \notin DOMAIN promises
        /\ procs[g].key \notin DOMAIN store

\* This step is a read by g of a key.
ReadOf(g) == procs[g].pc = "idle" /\ procs'[g].method = "GET"

\* C17: a read of a key that fails the storage's key validation (the empty
\* key, a key of more than 1024 bytes) is answered 400, and neither the
\* storage nor the promise map changes.
C17_InvalidKeyReadIsBadRequest ==
    [][\A g \in Procs :
          (ReadOf(g) /\ validateKey(procs'[g].key) # OK)
             => /\ procs'[g].pc = "done"
                /\ procs'[g].status = 400
                /\ StorageSame
                /\ promises' = promises]_vars

-----------------------------------------------------------------------------
(* The retry drivers (internal/retry/backoff.go).  Durations are whole      *)
(* numbers of a time unit; the random number rng.Float64()*2 - 1 of the     *)
(* jitter, a real in [-1, 1), is sampled in halves.  The unit of time is    *)
(* 50 ms: the default delays of New, 100 ms and 10 s, are 2 and 200.        *)

\* What context.Context.Err() returns once Done is closed by cancel().
CtxCanceled == "context.Canceled"

\* The samples of rng.Float64()*2 - 1, in halves: -1, -1/2, 0, 1/2.
JitterSamples == {-2, -1, 0, 1}

\* The configurations the drivers run with: positive delays and multiplier
\* (New leaves them as they are), no jitter or full jitter.
RetryConfigs ==
    {[InitialDelay |-> 2, MaxDelay |-> 4, Multiplier |-> 2,
      MaxAttempts |-> m, JitterFraction |-> j] : m \in 0..MaxAttempts, j \in {0, 1}}

\* The hints a function handed to DoWithHint returns.
ServerHints == {0, 5}

\* New
NewBackoff(config) ==
    [config |-> [config EXCEPT
                    !.InitialDelay = IF @ <= 0 THEN 2 ELSE @,
                    !.MaxDelay = IF @ <= 0 THEN 200 ELSE @,
                    !.Multiplier = IF @ <= 0 THEN 2 ELSE @,
                    !.JitterFraction = IF @ < 0 THEN 0 ELSE IF @ > 1 THEN 1 ELSE @],
     attempt |-> 0]

\* Backoff.Next: the backoffs and delays the call can leave and return, one
\* for each sample of the jitter.
BackoffNext(b, serverHint) ==
    LET attempt == b.attempt + 1
        c == b.config
        pow == c.InitialDelay * c.Multiplier ^ (attempt - 1)
        capped == IF pow > c.MaxDelay THEN c.MaxDelay ELSE pow
        jittered == IF c.JitterFraction > 0
                    THEN {(capped * (2 + u * c.JitterFraction)) \div 2 : u \in JitterSamples}
                    ELSE {capped}
    IN  IF c.MaxAttempts > 0 /\ attempt > c.MaxAttempts
        THEN {[b |-> [b EXCEPT !.attempt = attempt], delay |-> 0]}
        ELSE {[b |-> [b EXCEPT !.attempt = attempt],
               delay |-> IF serverHint > d THEN serverHint ELSE d] : d \in jittered}

\* What a call of the function handed to a driver can return: success, or
\* an error with shouldRetry and, for DoWithHint, a hint (Do passes Next 0).
\* seen is for the functions of the client: the answers the call got.
UserOutcomes(driver) ==
    {[err |-> "nil", shouldRetry |-> FALSE, hint |-> 0, seen |-> <<>>]}
        \cup {[err |-> e, shouldRetry |-> r, hint |-> h, seen |-> <<>>] :
                 e \in {"e1", "e2"}, r \in BOOLEAN,
                 h \in IF driver = "DoWithHint" THEN ServerHints ELSE {0}}

(* The client (internal/client): what its requests return for each answer  *)
(* of the server, and the functions its wrappers hand to the drivers.      *)

\* httpClient.Do fails (no answer), or the answer has a status and, on a
\* 409 of the server's handlePost, a Retry-After header in seconds.  bodyErr
\* is whether io.ReadAll(resp.Body) fails on the answer (the connection is
\* reset, or the context is cancelled, after the headers).
NetError == [neterr |-> TRUE, status |-> 0, retryAfter |-> Absent, bodyErr |-> FALSE]
Response(status, retryAfter) ==
    [neterr |-> FALSE, status |-> status, retryAfter |-> retryAfter, bodyErr |-> FALSE]

\* The same answer with a body that cannot be read to the end.
BodyCut(resp) == [resp EXCEPT !.bodyErr = TRUE]

GetResponses ==
    {NetError, BodyCut(Response(200, Absent))}
        \cup {Response(n, Absent) : n \in {200, 400, 404, 500}}
PostResponses ==
    {NetError, Response(409, Int64(1)), BodyCut(Response(200, Absent))}
        \cup {Response(n, Absent) : n \in {200, 202, 400, 500, 507}}
PutResponses ==
    {NetError} \cup {Response(n, Absent) : n \in {200, 400, 409, 411, 413, 500, 507}}

\* fmt.Errorf("executing request: %w", err)
ErrExecuting == "executing request"

\* fmt.Errorf("reading response body: %w", err)
ErrReadingBody == "reading response body"

\* fmt.Errorf("unexpected status: %d", resp.StatusCode)
ErrUnexpectedStatus(n) ==
    "unexpected status: " \o
        (CASE n = 400 -> "400" [] n = 404 -> "404" [] n = 409 -> "409"
           [] n = 500 -> "500" [] OTHER -> "?")

\* parseRetryAfter: whole seconds, in units of 50 ms
parseRetryAfter(resp) ==
    IF resp.retryAfter.kind = "int" THEN resp.retryAfter.n * 20 ELSE 0

\* Client.Get: the error it returns.  On a 200 it reads the body, and
\* returns the error of io.ReadAll when that fails.
ClientGet(resp) ==
    IF resp.neterr THEN ErrExecuting
    ELSE CASE resp.status = 200 -> IF resp.bodyErr THEN ErrReadingBody ELSE "nil"
           [] resp.status = 404 -> "ErrNotFound"
           [] OTHER -> ErrUnexpectedStatus(resp.status)

\* Client.Post, were it to take a 200 for the acceptance of the promise.
ClientPost_OkIsAccepted(resp) ==
    IF resp.neterr THEN [err |-> ErrExecuting, Status |-> "none", RetryAfter |-> 0]
    ELSE CASE resp.status = 200 ->
                [err |-> "nil", Status |-> "PostAccepted", RetryAfter |-> parseRetryAfter(resp)]
           [] resp.status = 202 ->
                [err |-> "nil", Status |-> "PostAccepted", RetryAfter |-> parseRetryAfter(resp)]
           [] resp.status = 409 ->
                [err |-> "nil", Status |-> "PostConflict", RetryAfter |-> parseRetryAfter(resp)]
           [] resp.status = 507 ->
                [err |-> "nil", Status |-> "PostInsufficientStorage",
                 RetryAfter |-> parseRetryAfter(resp)]
           [] OTHER ->
                [err |-> ErrUnexpectedStatus(resp.status), Status |-> "none", RetryAfter |-> 0]

\* Client.Post: the error and the PostResult it returns.  On a 200 the
\* error of io.ReadAll is dropped (value, _ := io.ReadAll(resp.Body)).
ClientPost(resp) ==
    IF resp.neterr THEN [err |-> ErrExecuting, Status |-> "none", RetryAfter |-> 0]
    ELSE CASE resp.status = 200 ->
                [err |-> "nil", Status |-> "PostExists", RetryAfter |-> parseRetryAfter(resp)]
           [] resp.status = 202 ->
                [err |-> "nil", Status |-> "PostAccepted", RetryAfter |-> parseRetryAfter(resp)]
           [] resp.status = 409 ->
                [err |-> "nil", Status |-> "PostConflict", RetryAfter |-> parseRetryAfter(resp)]
           [] resp.status = 507 ->
                [err |-> "nil", Status |-> "PostInsufficientStorage",
                 RetryAfter |-> parseRetryAfter(resp)]
           [] OTHER ->
                [err |-> ErrUnexpectedStatus(resp.status), Status |-> "none", RetryAfter |-> 0]

\* Client.Put: the error it returns
ClientPut(resp) ==
    IF resp.neterr THEN ErrExecuting
    ELSE CASE resp.status = 200 -> "nil"
           [] resp.status = 409 -> "ErrNoPromise"
           [] resp.status = 411 -> "ErrLengthRequired"
           [] resp.status = 413 -> "ErrPayloadTooLarge"
           [] resp.status = 507 -> "ErrInsufficientStorage"
           [] resp.status = 400 -> "ErrBadRequest"
           [] OTHER -> ErrUnexpectedStatus(resp.status)

\* Client.Set, for the answer to its POST and, when that is Accepted, the
\* answer to its PUT: the error it returns and the answers it got.
ClientSet(post, put) ==
    LET r == ClientPost(post)
    IN  IF r.err # "nil" THEN [err |-> r.err, seen |-> <<post>>]
        ELSE CASE r.Status = "PostAccepted" ->
                    [err |-> ClientPut(put), seen |-> <<post, put>>]
               [] r.Status = "PostExists" -> [err |-> "nil", seen |-> <<post>>]
               [] r.Status = "PostConflict" -> [err |-> "ErrConflict", seen |-> <<post>>]
               [] r.Status = "PostInsufficientStorage" ->
                    [err |-> "ErrInsufficientStorage", seen |-> <<post>>]

\* The function SetWithRetry hands to DoWithHint, for the answer to its POST
\* and, when that is Accepted, the answer to its PUT.
SetWithRetryFn(post, put) ==
    LET r == ClientPost(post)
    IN  IF r.err # "nil"
        THEN [err |-> r.err, shouldRetry |-> TRUE, hint |-> 0, seen |-> <<post>>]
        ELSE CASE r.Status = "PostAccepted" ->
                    [err |-> ClientPut(put), shouldRetry |-> FALSE, hint |-> 0,
                     seen |-> <<post, put>>]
               [] r.Status = "PostExists" ->
                    [err |-> "nil", shouldRetry |-> FALSE, hint |-> 0, seen |-> <<post>>]
               [] r.Status = "PostConflict" ->
                    [err |-> "ErrConflict", shouldRetry |-> TRUE, hint |-> r.RetryAfter,
                     seen |-> <<post>>]
               [] r.Status = "PostInsufficientStorage" ->
                    [err |-> "ErrInsufficientStorage", shouldRetry |-> FALSE, hint |-> 0,
                     seen |-> <<post>>]

\* The function GetWithRetry hands to Do, for the answer to its GET.
GetWithRetryFn(get) ==
    LET err == ClientGet(get)
    IN  IF err # "nil"
        THEN IF err = "ErrNotFound"
             THEN [err |-> err, shouldRetry |-> FALSE, hint |-> 0, seen |-> <<get>>]
             ELSE [err |-> err, shouldRetry |-> TRUE, hint |-> 0, seen |-> <<get>>]
        ELSE [err |-> "nil", shouldRetry |-> FALSE, hint |-> 0, seen |-> <<get>>]

\* The drivers and the functions they run: any function under either driver,
\* and the two wrappers of the client.
DriverRuns ==
    {[driver |-> "Do", fn |-> "user"], [driver |-> "DoWithHint", fn |-> "user"],
     [driver |-> "DoWithHint", fn |-> "SetWithRetry"],
     [driver |-> "Do", fn |-> "GetWithRetry"]}

\* What a call of the function of the run can return.
FnOutcomes(r) ==
    CASE r.fn = "SetWithRetry" ->
            {SetWithRetryFn(post, put) : post \in PostResponses, put \in PutResponses}
      [] r.fn = "GetWithRetry" -> {GetWithRetryFn(get) : get \in GetResponses}
      [] OTHER -> UserOutcomes(r.driver)

\* Do / DoWithHint up to the loop: a new backoff, no error yet, attempt 0.
\* calls counts the calls of the function, lastCall is what the last one
\* returned; asleepCancel is the value of calls when cancel() found the
\* driver blocked in its select, -1 if it has not.
NewDo(driver, fn, config) ==
    [driver |-> driver, fn |-> fn, config |-> config, backoff |-> NewBackoff(config),
     attempt |-> 0, lastErr |-> "nil", pc |-> "loop",
     ctxDone |-> FALSE, timer |-> "none", delay |-> 0,
     result |-> "none", calls |-> 0,
     lastCall |-> [err |-> "none", shouldRetry |-> FALSE, hint |-> 0, seen |-> <<>>],
     asleepCancel |-> -1]

retryOthersUnchanged ==
    UNCHANGED <<store, lru, memoryUsedBytes, now, last, useOrder, promises, pmLast,
                procs, granted, requests, reaper, router, okUploads, list>>

\* The check of MaxAttempts at the head of the loop.
attemptsExceeded_OneMore(config, attempt) ==
    config.MaxAttempts > 0 /\ attempt > config.MaxAttempts + 1

attemptsExceeded(config, attempt) ==
    config.MaxAttempts > 0 /\ attempt > config.MaxAttempts

\* One round of the loop of Do / DoWithHint, up to the select: the check of
\* MaxAttempts, the call of fn with outcome o, and on a retryable error
\* backoff.Next and time.After(delay).
DoAttempt(o) ==
    /\ retry.pc = "loop"
    /\ retry.calls < MaxCalls
    /\ LET attempt == retry.attempt + 1
       IN  IF attemptsExceeded(retry.config, attempt)
           THEN retry' = [retry EXCEPT !.attempt = attempt, !.pc = "returned",
                                       !.result = retry.lastErr]
           ELSE IF o.err = "nil"
           THEN retry' = [retry EXCEPT !.attempt = attempt, !.calls = @ + 1,
                                       !.lastCall = o, !.pc = "returned",
                                       !.result = "nil"]
           ELSE IF ~o.shouldRetry
           THEN retry' = [retry EXCEPT !.attempt = attempt, !.calls = @ + 1,
                                       !.lastCall = o, !.lastErr = o.err,
                                       !.pc = "returned", !.result = o.err]
           ELSE \E n \in BackoffNext(retry.backoff, o.hint) :
                    retry' = [retry EXCEPT !.attempt = attempt, !.calls = @ + 1,
                                           !.lastCall = o, !.lastErr = o.err,
                                           !.backoff = n.b, !.delay = n.delay,
                                           !.timer = "armed", !.pc = "select"]
    /\ retryOthersUnchanged

\* The select of the drivers on ctx.Done() and the timer's channel: one of
\* the ready cases, whichever; with none ready the goroutine blocks.
DoSelect ==
    /\ retry.pc = "select"
    /\ \/ /\ retry.ctxDone
          /\ retry' = [retry EXCEPT !.pc = "returned", !.result = CtxCanceled]
       \/ /\ retry.timer = "fired"
          /\ retry' = [retry EXCEPT !.pc = "loop", !.timer = "none"]
       \/ /\ ~retry.ctxDone
          /\ retry.timer # "fired"
          /\ retry' = [retry EXCEPT !.pc = "blocked"]
    /\ retryOthersUnchanged

\* The timer of time.After(delay) sends on its channel; a driver blocked in
\* the select is woken with the timer's case.
RetryTimerFire ==
    /\ retry.timer = "armed"
    /\ retry' = IF retry.pc = "blocked"
                THEN [retry EXCEPT !.timer = "none", !.pc = "loop"]
                ELSE [retry EXCEPT !.timer = "fired"]
    /\ retryOthersUnchanged

\* What cancel() of the context does to a driver: Done is closed, and a
\* driver blocked in the select is woken with the case of ctx.Done().
ctxCancel_WakesToPoll(r) ==
    [r EXCEPT !.ctxDone = TRUE,
              !.pc = IF @ = "blocked" THEN "select" ELSE @,
              !.asleepCancel = IF r.pc = "blocked" THEN r.calls ELSE @]

ctxCancel(r) ==
    [r EXCEPT !.ctxDone = TRUE,
              !.pc = IF @ = "blocked" THEN "woken" ELSE @,
              !.asleepCancel = IF r.pc = "blocked" THEN r.calls ELSE @]

RetryCancel ==
    /\ retry.pc # "returned"
    /\ ~retry.ctxDone
    /\ retry' = ctxCancel(retry)
    /\ retryOthersUnchanged

\* The driver woken by cancel(): return zero, ctx.Err()
DoReturnCanceled ==
    /\ retry.pc = "woken"
    /\ retry' = [retry EXCEPT !.pc = "returned", !.result = CtxCanceled]
    /\ retryOthersUnchanged

DoStep == (\E o \in FnOutcomes(retry) : DoAttempt(o)) \/ DoSelect \/ DoReturnCanceled

RetryInit ==
    /\ retry \in {NewDo(run.driver, run.fn, config) :
                     run \in DriverRuns, config \in RetryConfigs}
    /\ store = <<>>
    /\ lru = [head |-> Nil, tail |-> Nil]
    /\ memoryUsedBytes = 0
    /\ now = 0
    /\ last = NoOp
    /\ useOrder = <<>>
    /\ promises = <<>>
    /\ pmLast = <<>>
    /\ procs = <<>>
    /\ granted = <<>>
    /\ requests = 0
    /\ reaper = <<>>
    /\ router = <<>>
    /\ okUploads = <<>>
    /\ list = NewList

RetryNext ==
    \/ \E o \in FnOutcomes(retry) : DoAttempt(o)
    \/ DoSelect
    \/ DoReturnCanceled
    \/ RetryTimerFire
    \/ RetryCancel

\* One run of a driver, with the timer and a cancel() that can come at any
\* time or never.
SpecRetry == RetryInit /\ [][RetryNext]_vars

\* The same under the scheduling the code has: the driver's goroutine runs,
\* its function returns, and the timer fires when its delay has passed.
SpecRetryFair == SpecRetry /\ WF_vars(DoStep) /\ WF_vars(RetryTimerFire)

-----------------------------------------------------------------------------
(* Properties of the retry drivers.                                         *)

\* A driver with MaxAttempts = m > 0 calls its function at most m times.
AtMostMaxAttempts ==
    retry.config.MaxAttempts > 0 => retry.calls <= retry.config.MaxAttempts

\* A driver with MaxAttempts > 0 returns in the end.
DriverReturns == (retry.config.MaxAttempts > 0) ~> (retry.pc = "returned")

\* The call that succeeds is the last act of the driver: it has returned,
\* without error.
SuccessReturns ==
    retry.lastCall.err = "nil" => retry.pc = "returned" /\ retry.result = "nil"

\* So is the call that reports an error not to be retried: the driver has
\* returned that error.
NonRetryableReturns ==
    retry.lastCall.err \notin {"nil", "none"} /\ ~retry.lastCall.shouldRetry
        => retry.pc = "returned" /\ retry.result = retry.lastCall.err

\* The driver has returned after m = MaxAttempts calls that all failed with
\* shouldRetry set (a call that succeeds or fails for good is the last one).
Exhausted ==
    /\ retry.config.MaxAttempts > 0
    /\ retry.pc = "returned"
    /\ retry.calls = retry.config.MaxAttempts
    /\ retry.lastCall.shouldRetry

\* After its return a driver calls nothing and its result stands.
ReturnIsFinal ==
    [][retry.pc = "returned"
          => /\ retry'.pc = "returned"
             /\ retry'.calls = retry.calls
             /\ retry'.result = retry.result]_vars

\* C22 as claimed: with MaxAttempts = m > 0 a driver calls its function at
\* most m times and returns in the end: at once and without error after the
\* first call that succeeds, with the error of the call after the first call
\* that fails with shouldRetry unset, and with the error of the last call
\* once m calls have failed with shouldRetry set.
C22_DriverAsClaimed ==
    /\ [](AtMostMaxAttempts /\ SuccessReturns /\ NonRetryableReturns)
    /\ ReturnIsFinal
    /\ DriverReturns
    /\ [](Exhausted => retry.result = retry.lastCall.err)

\* C22, amended: the same, but once m calls have failed with shouldRetry set
\* the driver returns the error of the last call only if the context has not
\* been cancelled: the driver waits for the delay of Next after the m-th
\* call too, and a cancel() that comes by the end of that wait can make it
\* return the error of the context instead.
C22_DriverAmended ==
    /\ [](AtMostMaxAttempts /\ SuccessReturns /\ NonRetryableReturns)
    /\ ReturnIsFinal
    /\ DriverReturns
    /\ [](Exhausted => /\ retry.result \in {retry.lastCall.err, CtxCanceled}
                       /\ retry.result = CtxCanceled => retry.ctxDone)

\* DoWithHint with MaxAttempts = 2 has returned the error of the context
\* after two calls that failed with shouldRetry set: no call was left.
C22_Witness ==
    /\ retry.driver = "DoWithHint"
    /\ retry.config.MaxAttempts = 2
    /\ Exhausted
    /\ retry.lastCall.err = "e2"
    /\ retry.result = CtxCanceled

\* C23: when cancel() of the context comes while a driver is blocked in the
\* select between two attempts, the driver calls its function no more and
\* returns the error of the context.
C23_CancelWhileAsleep ==
    /\ [](retry.asleepCancel # -1
            => /\ retry.calls = retry.asleepCancel
               /\ retry.pc \in {"woken", "returned"}
               /\ retry.pc = "returned" => retry.result = CtxCanceled)
    /\ (retry.asleepCancel # -1) ~> (retry.pc = "returned")

\* Do with MaxAttempts = 2 was cancelled in the select after its first call,
\* the timer has fired since, and it has returned after that one call.
C23_Witness ==
    /\ retry.driver = "Do"
    /\ retry.config.MaxAttempts = 2
    /\ retry.asleepCancel = 1
    /\ retry.calls = 1
    /\ retry.timer = "fired"
    /\ retry.pc = "returned"
    /\ retry.result = CtxCanceled

\* The last answer that the last call of a wrapper of the client got.
LastAnswer == retry.lastCall.seen[Len(retry.lastCall.seen)]

ClientCalled ==
    retry.fn \in {"SetWithRetry", "GetWithRetry"} /\ retry.lastCall.seen # <<>>

\* The last call of the wrapper met a terminal outcome: not found on a
\* read, insufficient storage, a size mismatch (the 409 of an upload), or a
\* bad request.
ClientTerminal ==
    /\ ClientCalled
    /\ ~LastAnswer.neterr
    /\ \/ retry.fn = "GetWithRetry" /\ LastAnswer.status \in {400, 404}
       \/ retry.fn = "SetWithRetry" /\ LastAnswer.status \in {400, 507}
       \/ retry.fn = "SetWithRetry" /\ Len(retry.lastCall.seen) = 2
                                    /\ LastAnswer.status = 409

\* The last call of the wrapper met a network error (no answer, or the body
\* of the answer to a read broke off) or the conflict of an intend.
ClientRetryable ==
    /\ ClientCalled
    /\ \/ LastAnswer.neterr
       \/ retry.fn = "GetWithRetry" /\ LastAnswer.status = 200 /\ LastAnswer.bodyErr
       \/ retry.fn = "SetWithRetry" /\ Len(retry.lastCall.seen) = 1
                                    /\ LastAnswer.status = 409

\* C24: SetWithRetry and GetWithRetry do not retry after a terminal outcome:
\* the call that met it is the last and its error is returned; they retry
\* only after a network error or a conflict.
C24_NoRetryOnTerminal ==
    /\ ClientTerminal
          => /\ retry.pc = "returned"
             /\ retry.lastCall.err # "nil"
             /\ retry.result = retry.lastCall.err
    /\ ClientCalled /\ retry.lastCall.shouldRetry => ClientRetryable

-----------------------------------------------------------------------------
(* The storage engine again: puts that fit, and puts that fail.             *)

\* C26: a put with a valid key, a non-empty value, ttl > 0 and
\* len(key) + len(value) <= maxMemory returns OK whatever the store holds;
\* in particular it never returns ErrMemoryLimitExceeded.
C26_FittingPutSucceeds ==
    [][(/\ IsCall("put")
        /\ AdmissiblePut(last'.key, last'.value, last'.ttl))
       => last'.err = OK]_vars

\* C27: a put that returns an error leaves the store as it was: the
\* entries with their values, the LRU list and order, and memoryUsedBytes.
C27_FailedPutChangesNothing ==
    [][(IsCall("put") /\ last'.err # OK)
       => /\ store' = store
          /\ lru' = lru
          /\ memoryUsedBytes' = memoryUsedBytes
          /\ useOrder' = useOrder]_vars

-----------------------------------------------------------------------------
(* The client against the server.                                           *)

\* This step is the start of an intend by g: the POST of Client.Set or
\* SetWithRetry arrives and handlePost probes the storage.
IntendOf(g) == procs[g].pc = "idle" /\ procs'[g].method = "POST"

\* The key has an entry in the storage that has not expired.
LiveEntry(key) == key \in DOMAIN store /\ now < store[key].ExpirationTime

\* The answer of the server that the client reads from the handler of g.
AnswerTo(g) == Response(procs'[g].status, Absent)

\* C25: a Set or SetWithRetry for a key that has a live entry: the server
\* answers the POST with 200 in the step that probes the storage, the
\* client returns success on that answer without sending a PUT (and
\* SetWithRetry does not retry), the entry keeps its value and the promise
\* map is as before.
C25_SetOnLiveEntry ==
    [][\A g \in Procs :
          IntendOf(g) /\ LiveEntry(procs'[g].key)
             => /\ procs'[g].pc = "done"
                /\ procs'[g].status = 200
                /\ \A put \in PutResponses, post \in {AnswerTo(g), BodyCut(AnswerTo(g))} :
                      /\ ClientSet(post, put) = [err |-> "nil", seen |-> <<post>>]
                      /\ SetWithRetryFn(post, put) =
                            [err |-> "nil", shouldRetry |-> FALSE, hint |-> 0,
                             seen |-> <<post>>]
                /\ procs'[g].key \in DOMAIN store'
                /\ store'[procs'[g].key].Value = store[procs'[g].key].Value
                /\ store'[procs'[g].key].ExpirationTime
                      = store[procs'[g].key].ExpirationTime
                /\ promises' = promises
                /\ granted' = granted]_vars

\* An intend for a key with a live entry has been answered 200, while the
\* promise map holds no promise for the key.
C25_Witness ==
    \E g \in Procs :
        /\ procs[g].pc = "done"
        /\ procs[g].method = "POST"
        /\ procs[g].status = 200
        /\ LiveEntry(procs[g].key)
        /\ procs[g].key \notin DOMAIN promises

-----------------------------------------------------------------------------
(* Intends and uploads that run side by side.                               *)

\* C28: for each Accepted intend for a key, at most one upload for the key
\* is answered 200 before the next intend for the key is Accepted, however
\* the uploads for the key interleave.
C28_OneUploadPerIntend == \A key \in DOMAIN okUploads : okUploads[key] <= 1

\* The handler of g has answered an upload.
UploadAnswered(g) == procs[g].pc = "done" /\ procs[g].method = "PUT"

\* C29 as claimed: the Fulfill at the end of an upload removes no promise
\* but the one the upload got from promises.Get: a promise that another
\* intend was granted since (the first having expired) is left in the map.
C29_FulfillAsClaimed ==
    \A g \in Procs :
        UploadAnswered(g) => procs[g].removed \in {NoPromise, procs[g].found}

\* C29, amended: the Fulfill at the end of an upload removes whatever promise
\* the map holds for the key at that moment, so that the key has none
\* afterwards: the promise the upload found, or one created since for
\* another intend.
C29_FulfillAmended ==
    [][\A g \in Procs :
          procs[g].pc = "put_fulfill" /\ Stepped(g)
             => /\ procs'[g].key \notin DOMAIN promises'
                /\ procs'[g].removed =
                      (IF procs[g].key \in DOMAIN promises
                       THEN promises[procs[g].key] ELSE NoPromise)
                /\ procs'[g].removed \notin {NoPromise, procs[g].found}
                      => procs'[g].removed.CreatedAt >= procs[g].found.CreatedAt]_vars

\* An upload has been answered 200 whose promise had expired before another
\* intend was granted a new one, and whose Fulfill removed the new one while
\* it was live.
C29_Witness ==
    \E g \in Procs :
        /\ UploadAnswered(g)
        /\ procs[g].status = 200
        /\ procs[g].found # NoPromise
        /\ procs[g].removed \notin {NoPromise, procs[g].found}
        /\ procs[g].found.ExpiresAt <= procs[g].removed.CreatedAt
        /\ procs[g].removed.ExpiresAt > now
        /\ procs[g].key \notin DOMAIN promises

\* The handler of g has answered a non-dry-run intend with 202 Accepted,
\* having created the promise.
IntendAccepted(g) ==
    /\ procs[g].pc = "done"
    /\ procs[g].method = "POST"
    /\ procs[g].status = 202
    /\ ~procs[g].dry

\* C30 as claimed: when a non-dry-run intend is answered Accepted, the key
\* has no live entry in the storage at the creation of the promise (the
\* answer follows the creation with nothing in between), whatever uploads
\* for the key ran since the intend probed the storage.
C30_AcceptedAsClaimed ==
    \A g \in Procs : IntendAccepted(g) => ~LiveEntry(procs[g].key)

\* C30, amended: a non-dry-run intend is answered Accepted, and creates a
\* promise, only if the key had no live entry when the intend probed the
\* storage: an intend goes on from its probe only if the probe found no
\* entry, goes on to the creation without looking at the storage again, and
\* is Accepted by the creation only.  The storage is touched by uploads in
\* between, so the key can have a live entry when the promise is created.
C30_AcceptedAmended ==
    [][\A g \in Procs :
          /\ IntendOf(g) /\ procs'[g].pc # "done"
                => /\ procs'[g].pc = "post_check"
                   /\ ~LiveEntry(procs'[g].key)
                   /\ procs'[g].key \notin DOMAIN store'
          /\ InPost(g) /\ Stepped(g)
                => /\ InPost(g)' \/ procs'[g].pc = "done"
                   /\ StorageSame
          /\ ~IntendAccepted(g) /\ IntendAccepted(g)'
                => /\ procs[g].pc = "post_create"
                   /\ procs[g].key \notin DOMAIN promises
                         \/ promises[procs[g].key].ExpiresAt <= now
                   /\ promises'[procs[g].key].CreatedAt = now]_vars

\* An intend has been answered Accepted while the key has a live entry,
\* stored by an upload that ran to its end after the intend probed the
\* storage (no promise has expired: the clock has not moved).
C30_Witness ==
    \E g \in Procs :
        /\ IntendAccepted(g)
        /\ LiveEntry(procs[g].key)
        /\ procs[g].key \in DOMAIN promises
        /\ promises[procs[g].key].ExpiresAt > now
        /\ now = 0
        /\ \A h \in Procs \ {g} : procs[h].pc = "idle"

-----------------------------------------------------------------------------
(* The headers of a Conflict.                                                *)

\* The step writes the 409 of an intend of g.
ConflictAnswered(g) ==
    /\ procs[g].pc \in {"post_remaining", "post_remaining_w"}
    /\ procs'[g].pc = "done"
    /\ procs'[g].status = 409

\* The whole seconds that cover ms milliseconds.
CeilSeconds(ms) == (ms + 999) \div 1000

\* The Retry-After of a Conflict is ceil(remaining seconds) + 1.
RetryAfterIsCeilPlusOne ==
    [][\A g \in Procs :
          ConflictAnswered(g)
             => procs'[g].retryAfter = CeilSeconds(procs'[g].remaining) + 1]_vars

\* The x-jc-promise-ttl of a Conflict is what is left of the promise that the
\* intend found, at some instant of the clock unit in which it answers.
PromiseTTLIsOfFound ==
    [][\A g \in Procs :
          ConflictAnswered(g)
             => \E d \in SinceTick :
                   procs'[g].remaining = remainingOf("promise", procs[g].found, now, d)]_vars

\* C33: on every Conflict response of an intend, Retry-After (whole seconds)
\* equals ceil(remaining promise ttl in seconds) + 1, and x-jc-promise-ttl
\* equals the remaining ttl of the live promise that caused the conflict.
C33_ConflictHeaders ==
    /\ RetryAfterIsCeilPlusOne
    /\ PromiseTTLIsOfFound

-----------------------------------------------------------------------------
(* Uploads under a promise without a positive size.                          *)

\* C34: an upload under a promise whose recorded size is not positive (0, or
\* -1 for unspecified) is never rejected for size mismatch, whatever its
\* Content-Length.
C34_NoMismatchWithoutSize ==
    [][\A g \in Procs :
          (PutFoundPromise(g) /\ procs'[g].found.Size <= 0)
             => procs'[g].why # "size mismatch"]_vars

\* The same for a promise of size -1 only.
NoMismatchUnspecified ==
    [][\A g \in Procs :
          (PutFoundPromise(g) /\ procs'[g].found.Size < 0)
             => procs'[g].pc = "put_store"]_vars

-----------------------------------------------------------------------------
(* The TTL cleanup of a put.                                                 *)

\* The keys of the expired entries of the storage, in LRU order from the head.
ExpiredInLruOrder ==
    LET IsExpired(k) == Expired(store[k], now)
    IN  SelectSeq(LruKeys(St), IsExpired)

\* C35: the TTL cleanup run by a put stops at the first point where the bytes
\* freed reach the bytes it was asked for: it deletes the expired entries in
\* LRU order, none after the one with which the bytes freed reach the bytes
\* needed; when it has reached them, the expired entries later in LRU order
\* (but for the entry of the put's own key, which the put replaces) are in the
\* store as they were after the put, counted in memoryUsedBytes.
C35_CleanupStopsEarly ==
    [][(IsCall("put") /\ last'.info.cleanup)
       => LET exp  == ExpiredInLruOrder
              del  == last'.info.ttlDeleted
              need == last'.info.additional
              n    == Len(del)
          IN  /\ n <= Len(exp)
              /\ del = SubSeq(exp, 1, n)
              /\ last'.info.ttlFreed = SeqBytes(store, del)
              /\ n > 0 => SeqBytes(store, SubSeq(del, 1, n - 1)) < need
              /\ n < Len(exp) => SeqBytes(store, del) >= need
              /\ SeqBytes(store, del) >= need
                    => /\ \A i \in (n + 1)..Len(exp) :
                             exp[i] # last'.key
                                => /\ exp[i] \in DOMAIN store'
                                   /\ store'[exp[i]].Value = store[exp[i]].Value
                                   /\ store'[exp[i]].ExpirationTime
                                         = store[exp[i]].ExpirationTime
                       /\ memoryUsedBytes' = SumBytes(store', DOMAIN store')]_vars

\* A put whose cleanup deleted an expired entry and stopped: another expired
\* entry, later in LRU order, is still in the store.
C35_Witness ==
    /\ last.op = "put"
    /\ last.err = OK
    /\ last.info.cleanup
    /\ last.info.ttlDeleted # <<>>
    /\ last.info.evicted = <<>>
    /\ \E k \in DOMAIN store \ {last.key} : Expired(store[k], now)

-----------------------------------------------------------------------------
(* The LRU list and the map of the storage.                                  *)

\* C36: after every completed storage operation the nodes reachable in the
\* LRU list are the entries of the map, each exactly once, and the key most
\* recently put or successfully got is the LRU tail: the key of the call just
\* completed when that was a successful put or get, and at all times the last
\* used of the entries in the store, with the list in the order of use.
C36_ListMatchesMap ==
    LET q == LruKeys(St)
    IN  /\ Len(q) = Cardinality(DOMAIN store)
        /\ Range(q) = DOMAIN store
        /\ (last.op \in {"put", "get"} /\ last.err = OK) => lru.tail = last.key
        /\ q = useOrder
        /\ q # <<>> => lru.tail = q[Len(q)] /\ lru.head = q[1]
        /\ q = <<>> => lru.tail = Nil /\ lru.head = Nil

\* A successful get has moved to the tail an entry that was put before the
\* entry now at the head.
C36_Witness ==
    /\ last.op = "get"
    /\ last.err = OK
    /\ lru.tail = last.key
    /\ lru.head # lru.tail
    /\ store[lru.tail].ExpirationTime < store[lru.head].ExpirationTime

-----------------------------------------------------------------------------
(* The list on its own (storage/list.go), called as list_test.go calls it:   *)
(* append for an object that is not in the list, remove and moveToTail for   *)
(* one that is.                                                              *)

listOthersUnchanged ==
    UNCHANGED <<store, lru, memoryUsedBytes, now, last, useOrder, promises, pmLast,
                procs, granted, requests, reaper, router, retry, okUploads>>

\* The list as the operations of list.go take it.
TheList == [head |-> list.head, tail |-> list.tail, nodes |-> list.nodes]

\* The list after a call that left it as l.
ListCalled(l, op, node, order, removed) ==
    [head |-> l.head, tail |-> l.tail, nodes |-> l.nodes, order |-> order,
     removed |-> removed, op |-> op, key |-> node, was |-> list.order]

\* l.append(node)
LstAppend(node) ==
    /\ node \notin Range(list.order)
    /\ list' = ListCalled(ListAppend(TheList, node), "append", node,
                          Append(list.order, node), list.removed \ {node})
    /\ listOthersUnchanged

\* l.remove(node)
LstRemove(node) ==
    /\ node \in Range(list.order)
    /\ list' = ListCalled(ListRemove(TheList, node), "remove", node,
                          Without(list.order, {node}), list.removed \cup {node})
    /\ listOthersUnchanged

\* l.moveToTail(node)
LstMoveToTail(node) ==
    /\ node \in Range(list.order)
    /\ list' = ListCalled(ListMoveToTail(TheList, node), "moveToTail", node,
                          Append(Without(list.order, {node}), node), list.removed)
    /\ listOthersUnchanged

ListInit == StorageInit

ListNext ==
    \/ \E node \in ListNodeKeys : LstAppend(node)
    \/ \E node \in ListNodeKeys : LstRemove(node)
    \/ \E node \in ListNodeKeys : LstMoveToTail(node)

\* One list under any sequence of append, remove and moveToTail.
SpecList == ListInit /\ [][ListNext]_vars

\* listKeys and listKeysReverse of list_test.go.
listKeys == WalkNext(list.nodes, list.head, Cardinality(ListNodeKeys) + 1)
listKeysReverse == WalkPrev(list.nodes, list.tail, Cardinality(ListNodeKeys) + 1)

\* C37: after any sequence of append, remove and moveToTail on the nodes of
\* one list, the list is link-consistent: head.prev and tail.next are nil,
\* the walk by next from the head and the walk by prev from the tail visit
\* the same nodes in reverse order (the nodes appended and not removed, in
\* the order of the calls), a removed node has prev = next = nil, and
\* moveToTail puts its node last and keeps the relative order of the others.
C37_LinkConsistent ==
    LET fwd == listKeys
        bwd == listKeysReverse
    IN  /\ (list.head = Nil) <=> (list.tail = Nil)
        /\ list.head # Nil => list.nodes[list.head].prev = Nil
        /\ list.tail # Nil => list.nodes[list.tail].next = Nil
        /\ Len(fwd) = Len(bwd)
        /\ \A i \in 1..Len(fwd) : bwd[i] = fwd[Len(fwd) + 1 - i]
        /\ fwd = list.order
        /\ \A n \in ListNodeKeys \ Range(fwd) :
              list.nodes[n].prev = Nil /\ list.nodes[n].next = Nil
        /\ list.op = "moveToTail"
              => /\ fwd[Len(fwd)] = list.key
                 /\ Without(fwd, {list.key}) = Without(list.was, {list.key})

\* moveToTail has moved the middle one of three nodes to the tail, in a list
\* from which a node has been removed.
C37_Witness ==
    /\ list.op = "moveToTail"
    /\ Len(list.was) = 3
    /\ list.was[2] = list.key
    /\ listKeys = <<list.was[1], list.was[3], list.key>>
    /\ list.removed # {}

-----------------------------------------------------------------------------
(* The cap of Backoff.Next.                                                 *)

\* The driver has just called backoff.Next(0): it is at its select with the
\* delay Next returned, after a call of the function that gave no hint.
NextReturnedWithoutHint == retry.pc = "select" /\ retry.lastCall.hint = 0

\* C40: with serverHint = 0, Next never returns a delay greater than
\* MaxDelay, whatever the attempt number and whatever JitterFraction in
\* [0, 1] the backoff was made with.
C40_DelayWithinMaxDelay ==
    NextReturnedWithoutHint => retry.delay <= retry.backoff.config.MaxDelay

\* What Next keeps to: without jitter the delay is at most MaxDelay, and
\* with jitter at most MaxDelay * (1 + JitterFraction).
DelayWithinJitteredMaxDelay ==
    NextReturnedWithoutHint
        => retry.delay <= retry.backoff.config.MaxDelay
                             * (1 + retry.backoff.config.JitterFraction)

====
